---------------------------- MODULE Spec2Model ----------------------------
(***************************************************************************)
(* Orbital: a 2D gravitational sandbox (js/Physics.js, js/Body.js,         *)
(* js/Game.js, js/Input.js).                                               *)
(*                                                                         *)
(* Numbers.  The program computes in IEEE doubles.  The model keeps every  *)
(* quantity at a resolution of one unit (pixels, pixels per second, mass   *)
(* units) and rounds the result of every division, square root, cube root  *)
(* and trigonometric call to that resolution, the way the double rounds it *)
(* to its own.  Comparisons of distances are made on the squares, which is *)
(* exact.  Time is counted in units of 1/TimeDen second.                   *)
(***************************************************************************)
EXTENDS Integers, Sequences, FiniteSets, TLC

VARIABLES
    bodies,      \* Game.bodies: the live collection, a sequence of bodies
    star,        \* Game.star: position, mass, radius
    mode,        \* Game.mode: "star" | "freeform"
    paused,      \* Game.paused
    lastTime,    \* Game._lastTime: <<>> (null) or <<timestamp>>
    nextId,      \* Body.js _nextId
    explosions,  \* UI._explosions
    intents,     \* Input._intents
    saved,       \* localStorage 'orbit-save-v1': <<>> or <<data>>
    frames,      \* Game._frameCount (bounds the runs)
    placement,   \* Input.placement: phase, anchor, tip
    clickIntents,\* Input._clickIntents
    inspectedId, \* Game._inspectedId: <<>> (null) or <<id>>
    camera,      \* Game.camera: panX, panY, zoom (in 1/ZoomDen)
    centred,     \* Game._centred
    ui,          \* UI controls: size and star-mass sliders, speed, body type
    canvas,      \* the canvas: w (canvas.width), h (canvas.height)
    inputs,      \* number of user events handled so far (bounds the runs)
    pruned,      \* ids of the bodies the game loop has pruned so far
    lastStep,    \* what the last call of Physics.step was given and gave back
    atSave,      \* the scene when Save last ran: <<>> or <<mode, bodies, ref>>
    orbit,       \* one body of a long Physics run, kept at a finer resolution
    hist,        \* per body of a Physics run: every position ever recorded
    rafId,       \* Game._rafId: FALSE (null) or TRUE (a frame is requested)
    lastFrame    \* the last call of _loop: whether it found _lastTime null,
                 \* the intents it found, the bodies it spawned from them and
                 \* the inspected body it handed to the renderer

vars == <<bodies, star, mode, paused, lastTime, nextId, explosions, intents,
          saved, frames, placement, clickIntents, inspectedId, camera,
          centred, ui, canvas, inputs, pruned, lastStep, atSave, orbit,
          hist, rafId, lastFrame>>

-----------------------------------------------------------------------------
(* Program constants *)

G == 2
SOFTENING == 5
SOFTENING_SQ == SOFTENING * SOFTENING
SUBSTEPS == 4
ESCAPE_RADIUS == 5000
TRAIL_MAX_LENGTH == 300
STAR_MASS == 1000000
STAR_RADIUS == 30
KICK_FLOOR == 8
MIN_FRAGMENTS == 3
MAX_FRAGMENTS == 8
MIN_FRAG_RADIUS == 2
SPAWN_MARGIN == 3

MS_PER_SEC == 1000

(* Resolution of the model's numbers *)
SpeedDen == 4       \* the time-warp factor is kept in quarters
TrigScale == 1000   \* cos and sin are kept in thousandths
RandDen == 4        \* Math.random() draws k/RandDen, k in 0..RandDen-1
TimeDen == MS_PER_SEC * SpeedDen   \* time unit: 1/TimeDen second

-----------------------------------------------------------------------------
(* Arithmetic of the doubles, at the model's resolution *)

Abs(n) == IF n < 0 THEN -n ELSE n
Max(a, b) == IF a >= b THEN a ELSE b
Min(a, b) == IF a <= b THEN a ELSE b

\* n / d rounded to the nearest unit (halves upward, as Math.round does)
RoundDiv(n, d) == (2 * n + d) \div (2 * d)

RECURSIVE SqrtSearch(_, _, _)
SqrtSearch(n, lo, hi) ==
    IF lo >= hi THEN lo
    ELSE LET mid == (lo + hi + 1) \div 2
         IN  IF mid * mid <= n THEN SqrtSearch(n, mid, hi)
                               ELSE SqrtSearch(n, lo, mid - 1)

\* Math.sqrt, to the unit below
Sqrt(n) == SqrtSearch(n, 0, 46340)

RECURSIVE CbrtSearch(_, _, _)
CbrtSearch(n, lo, hi) ==
    IF lo >= hi THEN lo
    ELSE LET mid == (lo + hi + 1) \div 2
         IN  IF mid * mid * mid <= n THEN CbrtSearch(n, mid, hi)
                                     ELSE CbrtSearch(n, lo, mid - 1)

\* Math.cbrt, to the unit below
Cbrt(n) == CbrtSearch(n, 0, 1290)

\* sin of a whole number of degrees in 0..180, in thousandths (Bhaskara's
\* rational approximation, exact at 0, 30, 90, 150 and 180 degrees)
SinHalfTurn(d) == (4 * TrigScale * d * (180 - d)) \div (40500 - d * (180 - d))

\* Math.sin and Math.cos of an angle in whole degrees, in thousandths
Sin(deg) ==
    LET d == deg % 360
    IN  IF d <= 180 THEN SinHalfTurn(d) ELSE -SinHalfTurn(d - 180)

Cos(deg) == Sin(deg + 90)

\* the k-th value of Math.random() in a run of the generator started at
\* seed: numerator over RandDen, always below 1
Random(seed, k) == (seed + k * (seed \div RandDen)) % RandDen

\* the sequence f[1], ..., f[n], each element computed once
Seq1(f, n) == SubSeq(f, 1, n)

-----------------------------------------------------------------------------
(* js/Body.js *)

\* new CelestialBody({x, y, vx, vy, mass, radius, color, type}) with id
CelestialBody(id, d) ==
    [id |-> id, x |-> d.x, y |-> d.y, vx |-> d.vx, vy |-> d.vy,
     mass |-> d.mass, radius |-> d.radius, color |-> d.color, type |-> d.type,
     trail |-> <<>>, ax |-> 0, ay |-> 0, escaped |-> FALSE, merged |-> FALSE]

\* new Star(x, y)
Star(x, y) == [x |-> x, y |-> y, mass |-> STAR_MASS, radius |-> STAR_RADIUS]

-----------------------------------------------------------------------------
(* js/Physics.js.  Every operation takes and returns the world it works on: *)
(* w.bodies, w.star (<<>> for null, else <<star>>), w.fragments (the list   *)
(* step returns), w.draws (calls of Math.random() so far) and w.events (a   *)
(* record of what the collision passes did, kept for the properties).       *)

\* the acceleration one mass gives along one axis: G * M / distSq * d / dist
Pull(M, d, distSq) == RoundDiv(RoundDiv(G * M, distSq) * d, Sqrt(distSq))

\* lines 63-66: reset every body's acceleration
ResetAccelerations(bs) ==
    Seq1([k \in 1..Len(bs) |-> [bs[k] EXCEPT !.ax = 0, !.ay = 0]], Len(bs))

\* lines 69-79: the star's pull on each body (none when star is null)
StarAccelerations(bs, st) ==
    IF st = <<>> THEN bs
    ELSE Seq1([k \in 1..Len(bs) |->
            LET b == bs[k]
                dx == st[1].x - b.x
                dy == st[1].y - b.y
                distSq == dx * dx + dy * dy + SOFTENING_SQ
            IN  [b EXCEPT !.ax = @ + Pull(st[1].mass, dx, distSq),
                          !.ay = @ + Pull(st[1].mass, dy, distSq)]], Len(bs))

\* lines 84-96: one pair (i, j), i < j
PairAcceleration(bs, i, j) ==
    LET a == bs[i]
        b == bs[j]
        dx == b.x - a.x
        dy == b.y - a.y
        distSq == dx * dx + dy * dy + SOFTENING_SQ
    IN  [bs EXCEPT ![i] = [a EXCEPT !.ax = @ + Pull(b.mass, dx, distSq),
                                    !.ay = @ + Pull(b.mass, dy, distSq)],
                   ![j] = [b EXCEPT !.ax = @ - Pull(a.mass, dx, distSq),
                                    !.ay = @ - Pull(a.mass, dy, distSq)]]

\* lines 82-98: the pairwise loop, from pair (i, j) on
RECURSIVE PairAccelerations(_, _, _)
PairAccelerations(bs, i, j) ==
    IF i > Len(bs) THEN bs
    ELSE IF j > Len(bs) THEN PairAccelerations(bs, i + 1, i + 2)
    ELSE PairAccelerations(PairAcceleration(bs, i, j), i, j + 1)

\* _computeAccelerations(bodies, star)
computeAccelerations(w) ==
    [w EXCEPT !.bodies =
        PairAccelerations(StarAccelerations(ResetAccelerations(w.bodies), w.star),
                          1, 2)]

\* what the properties keep of a body: everything but its trail
Essence(b) ==
    [id |-> b.id, x |-> b.x, y |-> b.y, vx |-> b.vx, vy |-> b.vy,
     mass |-> b.mass, radius |-> b.radius, merged |-> b.merged,
     escaped |-> b.escaped]

Essences(bs) == Seq1([k \in 1..Len(bs) |-> Essence(bs[k])], Len(bs))

\* Math.sqrt(dx * dx + dy * dy) < reach, for reach >= 0
Within(dx, dy, reach) == dx * dx + dy * dy < reach * reach

\* a faulty reach, the star's radius alone; C7 tells it from line 109
TouchesStarBody(b, st) == Within(b.x - st.x, b.y - st.y, st.radius)

\* line 109: dist < star.radius + b.radius * 0.5 (both sides doubled)
TouchesStar(b, st) ==
    Within(2 * (b.x - st.x), 2 * (b.y - st.y), 2 * st.radius + b.radius)

\* a faulty absorption that grows the star by each body it absorbs; C8
\* tells it from lines 104-113
AbsorbAndFeedStar(w) ==
    IF w.star = <<>> THEN w
    ELSE [w EXCEPT
            !.bodies =
               Seq1([k \in 1..Len(w.bodies) |->
                       IF TouchesStar(w.bodies[k], w.star[1])
                       THEN [w.bodies[k] EXCEPT !.merged = TRUE]
                       ELSE w.bodies[k]], Len(w.bodies)),
            !.star =
               << [w.star[1] EXCEPT !.mass =
                     @ + Cardinality({k \in 1..Len(w.bodies) :
                                        TouchesStar(w.bodies[k], w.star[1])})] >>]

\* lines 104-113: bodies inside the star are flagged merged
AbsorbIntoStar(w) ==
    IF w.star = <<>> THEN w
    ELSE [w EXCEPT !.bodies =
            Seq1([k \in 1..Len(w.bodies) |->
                    IF TouchesStar(w.bodies[k], w.star[1])
                    THEN [w.bodies[k] EXCEPT !.merged = TRUE]
                    ELSE w.bodies[k]], Len(w.bodies))]

\* line 125: dist < a.radius + bdy.radius
Overlap(a, b) == Within(b.x - a.x, b.y - a.y, a.radius + b.radius)

\* line 160
FragmentCount(a, b) ==
    Max(MIN_FRAGMENTS, Min(MAX_FRAGMENTS, RoundDiv(a.radius + b.radius, 3)))

\* line 161
FragmentRadius(a, b) ==
    Max(MIN_FRAG_RADIUS,
        Cbrt(RoundDiv(a.radius * a.radius * a.radius
                      + b.radius * b.radius * b.radius, FragmentCount(a, b))))

\* a faulty fragment mass, the whole mass of the pair; C5 tells it from
\* line 162
FragmentMassWhole(a, b) == a.mass + b.mass

\* line 162
FragmentMass(a, b) == Max(1, RoundDiv(a.mass + b.mass, FragmentCount(a, b)))

\* line 157
KickSpeed(a, b) ==
    LET relVx == a.vx - b.vx
        relVy == a.vy - b.vy
    IN  Max(KICK_FLOOR, RoundDiv(45 * Sqrt(relVx * relVx + relVy * relVy), 100))

\* line 167, in degrees: (i / N) * 2 PI + (Math.random() - 0.5) * (PI / N)
FragmentAngle(i, N, r) ==
    RoundDiv(360 * i, N) + RoundDiv((2 * r - RandDen) * 180, 2 * N * RandDen)

\* line 168: kickSpeed * (0.7 + Math.random() * 0.6)
FragmentKick(kickSpeed, r) ==
    RoundDiv(kickSpeed * (7 * RandDen + 6 * r), 10 * RandDen)

\* a faulty centre-of-mass velocity, the velocity of a; C4 tells it from
\* lines 151-152
FirstVelocity(a, b) == [vx |-> a.vx, vy |-> a.vy]

\* lines 151-152: cvx, cvy
ComVelocity(a, b) ==
    [vx |-> RoundDiv(a.vx * a.mass + b.vx * b.mass, a.mass + b.mass),
     vy |-> RoundDiv(a.vy * a.mass + b.vy * b.mass, a.mass + b.mass)]

\* lines 166-179: the i-th fragment (i from 0) of the explosion of a and b,
\* when `draws` calls of Math.random() came before the explosion
Fragment(a, b, i, seed, draws) ==
    LET totalMass == a.mass + b.mass
        cx  == RoundDiv(a.x * a.mass + b.x * b.mass, totalMass)
        cy  == RoundDiv(a.y * a.mass + b.y * b.mass, totalMass)
        cvx == ComVelocity(a, b).vx
        cvy == ComVelocity(a, b).vy
        N == FragmentCount(a, b)
        spawnR == FragmentRadius(a, b) * 2 + SPAWN_MARGIN
        angle == FragmentAngle(i, N, Random(seed, draws + 2 * i))
        kick == FragmentKick(KickSpeed(a, b), Random(seed, draws + 2 * i + 1))
    IN  [x  |-> cx + RoundDiv(Cos(angle) * spawnR, TrigScale),
         y  |-> cy + RoundDiv(Sin(angle) * spawnR, TrigScale),
         vx |-> cvx + RoundDiv(Cos(angle) * kick, TrigScale),
         vy |-> cvy + RoundDiv(Sin(angle) * kick, TrigScale),
         mass |-> FragmentMass(a, b),
         radius |-> FragmentRadius(a, b),
         color |-> IF a.mass >= b.mass THEN a.color ELSE b.color,
         type |-> "planet"]

\* _explode(a, b, fragments): the fragments it pushes
explode(a, b, seed, draws) ==
    Seq1([k \in 1..FragmentCount(a, b) |-> Fragment(a, b, k - 1, seed, draws)],
         FragmentCount(a, b))

\* a faulty merge that takes the difference of the volumes; C13 tells it
\* from lines 132-138
MergedShrunk(a, bdy) ==
    [a EXCEPT
       !.x  = RoundDiv(a.x * a.mass + bdy.x * bdy.mass, a.mass + bdy.mass),
       !.y  = RoundDiv(a.y * a.mass + bdy.y * bdy.mass, a.mass + bdy.mass),
       !.vx = RoundDiv(a.vx * a.mass + bdy.vx * bdy.mass, a.mass + bdy.mass),
       !.vy = RoundDiv(a.vy * a.mass + bdy.vy * bdy.mass, a.mass + bdy.mass),
       !.radius = Cbrt(Max(0, a.radius * a.radius * a.radius
                              - bdy.radius * bdy.radius * bdy.radius)),
       !.mass = a.mass + bdy.mass]

\* a faulty merge that averages the velocities without the masses; C1 tells
\* it from lines 132-138
MergedUnweighted(a, bdy) ==
    [a EXCEPT
       !.x  = RoundDiv(a.x * a.mass + bdy.x * bdy.mass, a.mass + bdy.mass),
       !.y  = RoundDiv(a.y * a.mass + bdy.y * bdy.mass, a.mass + bdy.mass),
       !.vx = RoundDiv(a.vx + bdy.vx, 2),
       !.vy = RoundDiv(a.vy + bdy.vy, 2),
       !.radius = Cbrt(a.radius * a.radius * a.radius
                       + bdy.radius * bdy.radius * bdy.radius),
       !.mass = a.mass + bdy.mass]

\* lines 132-138: a after it has absorbed bdy
Merged(a, bdy) ==
    LET totalMass == a.mass + bdy.mass
    IN  [a EXCEPT
           !.x  = RoundDiv(a.x * a.mass + bdy.x * bdy.mass, totalMass),
           !.y  = RoundDiv(a.y * a.mass + bdy.y * bdy.mass, totalMass),
           !.vx = RoundDiv(a.vx * a.mass + bdy.vx * bdy.mass, totalMass),
           !.vy = RoundDiv(a.vy * a.mass + bdy.vy * bdy.mass, totalMass),
           !.radius = Cbrt(a.radius * a.radius * a.radius
                           + bdy.radius * bdy.radius * bdy.radius),
           !.mass = totalMass]

\* a faulty explosion that flags the first body only; C9 tells it from
\* lines 128-129
ExplodedFirst(bs, i, j) == [bs EXCEPT ![i] = [@ EXCEPT !.merged = TRUE]]

\* lines 128-129: both bodies of an exploded pair are flagged, none removed
Exploded(bs, i, j) ==
    [bs EXCEPT ![i] = [@ EXCEPT !.merged = TRUE],
               ![j] = [@ EXCEPT !.merged = TRUE]]

\* a faulty merge that leaves bdy unflagged; C27 tells it from line 139
AbsorbedUnflagged(bs, i, j) == [bs EXCEPT ![i] = Merged(bs[i], bs[j])]

\* a faulty merge in which the heavier body survives; C22 tells it from
\* lines 132-139
AbsorbedByHeavier(bs, i, j) ==
    IF bs[j].mass > bs[i].mass
    THEN [bs EXCEPT ![j] = Merged(bs[j], bs[i]),
                    ![i] = [@ EXCEPT !.merged = TRUE]]
    ELSE [bs EXCEPT ![i] = Merged(bs[i], bs[j]),
                    ![j] = [@ EXCEPT !.merged = TRUE]]

\* lines 132-139: a becomes the survivor, bdy is flagged
Absorbed(bs, i, j) ==
    [bs EXCEPT ![i] = Merged(bs[i], bs[j]),
               ![j] = [@ EXCEPT !.merged = TRUE]]

\* lines 126-140: the overlapping pair (i, j) is resolved
Resolve(w, i, j) ==
    LET a == w.bodies[i]
        bdy == w.bodies[j]
        frags == IF w.explosions THEN explode(a, bdy, w.seed, w.draws)
                                 ELSE <<>>
        after == IF w.explosions THEN Exploded(w.bodies, i, j)
                                 ELSE Absorbed(w.bodies, i, j)
    IN  [w EXCEPT
           !.fragments = @ \o frags,
           !.draws = @ + 2 * Len(frags),
           !.bodies = after,
           !.events = Append(@,
               [kind |-> IF w.explosions THEN "explode" ELSE "merge",
                pass |-> w.pass, i |-> i, j |-> j,
                a |-> Essence(a), b |-> Essence(bdy),
                after |-> Essences(after), frags |-> frags])]

\* faulty loops that never look at the merged flag; C20 tells them from
\* lines 117 and 120
RECURSIVE PairCollisionsUnchecked(_, _, _)
PairCollisionsUnchecked(w, i, j) ==
    IF i > Len(w.bodies) THEN w
    ELSE IF j = 0 THEN PairCollisionsUnchecked(w, i, i + 1)
    ELSE IF j > Len(w.bodies) THEN PairCollisionsUnchecked(w, i + 1, 0)
    ELSE IF Overlap(w.bodies[i], w.bodies[j])
         THEN PairCollisionsUnchecked(Resolve(w, i, j), i, j + 1)
    ELSE PairCollisionsUnchecked(w, i, j + 1)

\* lines 116-143: the body-vs-body loops, at outer index i; j = 0 stands for
\* the head of the outer loop's body, j > 0 for the inner loop at index j
RECURSIVE PairCollisions(_, _, _)
PairCollisions(w, i, j) ==
    IF i > Len(w.bodies) THEN w
    ELSE IF j = 0
         THEN IF w.bodies[i].merged THEN PairCollisions(w, i + 1, 0)
                                    ELSE PairCollisions(w, i, i + 1)
    ELSE IF j > Len(w.bodies) THEN PairCollisions(w, i + 1, 0)
    ELSE IF w.bodies[j].merged THEN PairCollisions(w, i, j + 1)
    ELSE IF Overlap(w.bodies[i], w.bodies[j])
         THEN PairCollisions(Resolve(w, i, j), i, j + 1)
    ELSE PairCollisions(w, i, j + 1)

\* _handleCollisions(bodies, star, fragments)
handleCollisions(w) ==
    LET absorbed == AbsorbIntoStar(w)
        done == PairCollisions(absorbed, 1, 0)
    IN  [done EXCEPT
           !.passes = Append(@, [entry |-> Essences(w.bodies),
                                 scan  |-> Essences(absorbed.bodies),
                                 exit  |-> Essences(done.bodies)])]

\* lines 31-32 and 44-45: v += 0.5 * a * dt, with dt = frameTime / SUBSTEPS
HalfKick(b, frameTime) ==
    [b EXCEPT !.vx = @ + RoundDiv(b.ax * frameTime, 2 * SUBSTEPS * TimeDen),
              !.vy = @ + RoundDiv(b.ay * frameTime, 2 * SUBSTEPS * TimeDen)]

\* a faulty drift by a fixed sixteenth of a second whatever the frame time;
\* C3 tells it from lines 35-36
DriftFixed(b, frameTime) ==
    [b EXCEPT !.x = @ + RoundDiv(b.vx, 16), !.y = @ + RoundDiv(b.vy, 16)]

\* lines 35-36: p += v * dt
Drift(b, frameTime) ==
    [b EXCEPT !.x = @ + RoundDiv(b.vx * frameTime, SUBSTEPS * TimeDen),
              !.y = @ + RoundDiv(b.vy * frameTime, SUBSTEPS * TimeDen)]

\* a faulty pass that takes the bodies one by one, each accelerated from the
\* positions its predecessors have already drifted to; C21 tells it from
\* lines 27-37
RECURSIVE KickDriftFrom(_, _)
KickDriftFrom(w, k) ==
    IF k > Len(w.bodies) THEN w
    ELSE KickDriftFrom(
            [w EXCEPT !.bodies[k] =
                Drift(HalfKick(computeAccelerations(w).bodies[k],
                               w.frameTime),
                      w.frameTime)],
            k + 1)

KickDriftOneByOne(w) == KickDriftFrom(w, 1)

\* lines 29-37
KickDrift(w) ==
    [w EXCEPT !.bodies =
        Seq1([k \in 1..Len(w.bodies) |->
                Drift(HalfKick(w.bodies[k], w.frameTime), w.frameTime)],
             Len(w.bodies))]

\* lines 42-46
SecondKick(w) ==
    [w EXCEPT !.bodies =
        Seq1([k \in 1..Len(w.bodies) |-> HalfKick(w.bodies[k], w.frameTime)],
             Len(w.bodies))]

\* a faulty trail that shifts one entry too early; C11 tells it from
\* lines 50-51
PushTrailShort(trail, b) ==
    IF Len(trail) + 1 >= TRAIL_MAX_LENGTH THEN Tail(Append(trail, <<b.x, b.y>>))
    ELSE Append(trail, <<b.x, b.y>>)

\* a faulty trail that drops the newest position when full; C10 tells it
\* from lines 50-51
PushTrailKeepOldest(trail, b) ==
    IF Len(trail) >= TRAIL_MAX_LENGTH THEN trail
    ELSE Append(trail, <<b.x, b.y>>)

\* lines 50-51: push the position, shift when longer than TRAIL_MAX_LENGTH
PushTrail(trail, b) ==
    LET pushed == Append(trail, <<b.x, b.y>>)
    IN  IF Len(pushed) > TRAIL_MAX_LENGTH THEN Tail(pushed) ELSE pushed

\* a faulty step that also flags the bodies beyond ESCAPE_RADIUS of the star;
\* C19 tells it from lines 49-52
RecordTrailsFlagging(w) ==
    [w EXCEPT !.bodies =
        Seq1([k \in 1..Len(w.bodies) |->
                [w.bodies[k] EXCEPT
                   !.trail = PushTrail(@, w.bodies[k]),
                   !.escaped =
                      \/ @
                      \/ /\ w.star # <<>>
                         /\ ~Within(w.bodies[k].x - w.star[1].x,
                                    w.bodies[k].y - w.star[1].y,
                                    ESCAPE_RADIUS + 1)]],
             Len(w.bodies))]

\* lines 49-52
RecordTrails(w) ==
    [w EXCEPT !.bodies =
        Seq1([k \in 1..Len(w.bodies) |->
                [w.bodies[k] EXCEPT !.trail = PushTrail(@, w.bodies[k])]],
             Len(w.bodies))]

\* lines 26-55: one substep
Substep(w) ==
    handleCollisions(
        RecordTrails(
            SecondKick(
                computeAccelerations(
                    KickDrift(
                        computeAccelerations(w))))))

\* lines 25-56: substeps s .. SUBSTEPS
RECURSIVE Substeps(_, _)
Substeps(w, s) ==
    IF s > SUBSTEPS THEN w
    ELSE Substeps(Substep([w EXCEPT !.pass = s]), s + 1)

\* step(bodies, star, frameTimeSec, options), Math.random() started at seed
step(bs, st, frameTime, scatter, seed) ==
    Substeps([bodies |-> bs, star |-> st, frameTime |-> frameTime,
              explosions |-> scatter, seed |-> seed, draws |-> 0, pass |-> 0,
              fragments |-> <<>>, events |-> <<>>, passes |-> <<>>], 1)

-----------------------------------------------------------------------------
(* Physics.step for one body and the star at a finer resolution: position,  *)
(* velocity and acceleration in 1/FineDen of a pixel, so that the rounding   *)
(* of the model stays far below the motion of one substep.                  *)

CoarseDen == 100    \* distances inside the force: 1/CoarseDen px
FinePerCoarse == 500
PullDen == 500      \* G * M / distSq: 1/PullDen px/s^2

\* position, velocity, acceleration: 1/FineDen px
FineDen == CoarseDen * FinePerCoarse

\* no body in orbit
NoOrbit ==
    [x |-> 0, y |-> 0, vx |-> 0, vy |-> 0, ax |-> 0, ay |-> 0, radius |-> 0,
     merged |-> FALSE]

\* a length of the fine resolution, in 1/CoarseDen px
Coarse(d) == RoundDiv(d, FinePerCoarse)

\* lines 69-79: the star's pull on body o; dist keeps the softening
FineAccelerations(o, st) ==
    LET dx == Coarse(st.x * FineDen - o.x)
        dy == Coarse(st.y * FineDen - o.y)
        distSq == dx * dx + dy * dy + SOFTENING_SQ * CoarseDen * CoarseDen
        dist == Sqrt(distSq)
        force == RoundDiv(RoundDiv(G * st.mass * PullDen, dist)
                             * CoarseDen * CoarseDen, dist)
        ax == RoundDiv(force * dx, dist)
        ay == RoundDiv(force * dy, dist)
    IN  [o EXCEPT !.ax = RoundDiv(ax * FinePerCoarse, PullDen) * CoarseDen,
                  !.ay = RoundDiv(ay * FinePerCoarse, PullDen) * CoarseDen]

\* lines 31-32 and 44-45: v += 0.5 * a * dt
FineHalfKick(o, frameTime) ==
    [o EXCEPT !.vx = @ + RoundDiv(o.ax * frameTime, 2 * SUBSTEPS * TimeDen),
              !.vy = @ + RoundDiv(o.ay * frameTime, 2 * SUBSTEPS * TimeDen)]

\* lines 35-36: p += v * dt
FineDrift(o, frameTime) ==
    [o EXCEPT !.x = @ + RoundDiv(o.vx * frameTime, SUBSTEPS * TimeDen),
              !.y = @ + RoundDiv(o.vy * frameTime, SUBSTEPS * TimeDen)]

\* lines 104-113: the star absorbs the body within star.radius + radius / 2
FineAbsorb(o, st) ==
    LET dx == Coarse(o.x - st.x * FineDen)
        dy == Coarse(o.y - st.y * FineDen)
    IN  IF Within(dx, dy, ((2 * st.radius + o.radius) * CoarseDen) \div 2)
        THEN [o EXCEPT !.merged = TRUE]
        ELSE o

\* a faulty substep whose second kick uses the forces of the old position;
\* C18 tells it from line 40
FineSubstepStale(o, st, frameTime) ==
    FineAbsorb(
        FineHalfKick(
            FineDrift(FineHalfKick(FineAccelerations(o, st), frameTime),
                      frameTime),
            frameTime),
        st)

\* lines 25-56 for one body: kick, drift, new forces, kick, collision
FineSubstep(o, st, frameTime) ==
    FineAbsorb(
        FineHalfKick(
            FineAccelerations(
                FineDrift(FineHalfKick(FineAccelerations(o, st), frameTime),
                          frameTime),
                st),
            frameTime),
        st)

\* lines 21-59 for one body: substeps s .. SUBSTEPS
RECURSIVE FineSubsteps(_, _, _, _)
FineSubsteps(o, st, frameTime, s) ==
    IF s > SUBSTEPS THEN o
    ELSE FineSubsteps(FineSubstep(o, st, frameTime), st, frameTime, s + 1)

\* Physics.circularOrbitVelocity(x, y, starPos, starMass), in 1/FineDen px/s,
\* for a point (dx, dy) away from the star in 1/FineDen px
circularOrbitVelocity(dx, dy, starMass) ==
    LET r == Sqrt(Coarse(dx) * Coarse(dx) + Coarse(dy) * Coarse(dy))
    IN  IF r < CoarseDen THEN 0
        ELSE Sqrt(RoundDiv(G * starMass * CoarseDen, r)
                     * CoarseDen * CoarseDen) * FinePerCoarse

-----------------------------------------------------------------------------
(* The record of the last call of step *)

NoStep ==
    [called |-> FALSE, frameTime |-> 0, explosions |-> FALSE,
     entry |-> <<>>, star |-> <<>>, exit |-> <<>>, starOut |-> <<>>,
     fragments |-> <<>>, events |-> <<>>, passes |-> <<>>]

StepRecord(bs, st, frameTime, scatter, out) ==
    [called |-> TRUE, frameTime |-> frameTime, explosions |-> scatter,
     entry |-> bs, star |-> st, exit |-> out.bodies, starOut |-> out.star,
     fragments |-> out.fragments, events |-> out.events,
     passes |-> out.passes]

\* no call of _loop yet
NoFrame == [first |-> FALSE, asked |-> 0, spawned |-> 0, inspected |-> <<>>]

\* Game line 332: the star handed to the engine, null in freeform mode
ActiveStar == IF mode = "star" THEN <<star>> ELSE <<>>

-----------------------------------------------------------------------------
(* What the constructors of Input, UI and the camera leave behind *)

ZoomDen == 1000     \* camera zoom is counted in thousandths

\* Input.js line 126 and line 263
IdlePlacement ==
    [phase |-> "idle", anchorX |-> 0, anchorY |-> 0, tipX |-> 0, tipY |-> 0]

\* Game constructor lines 236, 238; Input constructor lines 126-128; UI
\* constructor: planet type, default colour, sliders at their defaults
InitControls ==
    /\ placement = IdlePlacement
    /\ intents = <<>>
    /\ clickIntents = <<>>
    /\ inspectedId = <<>>
    /\ camera = [panX |-> 0, panY |-> 0, zoom |-> ZoomDen]
    /\ ui = [size |-> 8, bodyType |-> "planet", color |-> "#4fc3f7",
             starMassSlider |-> 67, speed |-> 0]
    /\ inputs = 0

-----------------------------------------------------------------------------
(* The engine driven directly, as a test of Physics.step drives it: a       *)
(* collection is built, then step is called on it again and again.          *)

MaxBodies == 3      \* bodies in a collection handed to the engine
MaxSteps == 2       \* calls of step in one run
CANVAS_W == 800
CANVAS_H == 600

\* bodies to build collections from: a cluster of three mutually overlapping
\* bodies right of the star, a heavy body inside the star's reach, a small
\* body that overlaps the heavy one from outside the star's reach
BodyPool ==
    { [x |-> 500, y |-> 300, vx |-> 0, vy |-> 40, mass |-> 1, radius |-> 4,
       color |-> "blue", type |-> "planet"],
      [x |-> 506, y |-> 300, vx |-> 0, vy |-> -40, mass |-> 5, radius |-> 6,
       color |-> "red", type |-> "planet"],
      [x |-> 500, y |-> 308, vx |-> 30, vy |-> 0, mass |-> 2, radius |-> 12,
       color |-> "green", type |-> "planet"],
      [x |-> 432, y |-> 300, vx |-> -20, vy |-> 0, mass |-> 2000, radius |-> 8,
       color |-> "white", type |-> "star"],
      [x |-> 442, y |-> 300, vx |-> 0, vy |-> 150, mass |-> 3, radius |-> 4,
       color |-> "grey", type |-> "planet"] }

\* sequences of up to n different pool bodies
Collections(n) ==
    UNION { { c \in [1..k -> BodyPool] :
                \A p, q \in 1..k : p # q => c[p] # c[q] } : k \in 0..n }

Construct(c) == Seq1([k \in 1..Len(c) |-> CelestialBody(k, c[k])], Len(c))

\* frame times handed to step: 0, 0.1 s and 0.4 s
EngineTimes == {0, TimeDen \div 10, (4 * TimeDen) \div 10}

\* generators of Math.random(): constant 0, constant 1/2, rising, falling
Seeds == {0, RandDen \div 2, RandDen, RandDen * RandDen - 1}

InitEngine ==
    /\ \E c \in Collections(MaxBodies) :
          /\ bodies = Construct(c)
          /\ nextId = Len(c) + 1
          /\ hist = Seq1([k \in 1..Len(c) |-> <<>>], Len(c))
    /\ star = [Star(0, 0) EXCEPT !.x = CANVAS_W \div 2, !.y = CANVAS_H \div 2]
    /\ mode \in {"star", "freeform"}
    /\ explosions \in BOOLEAN
    /\ paused = FALSE
    /\ lastTime = <<>>
    /\ saved = <<>>
    /\ atSave = <<>>
    /\ orbit = NoOrbit
    /\ frames = 0
    /\ centred = TRUE
    /\ canvas = [w |-> CANVAS_W, h |-> CANVAS_H]
    /\ InitControls
    /\ rafId = TRUE
    /\ lastFrame = NoFrame
    /\ pruned = {}
    /\ lastStep = NoStep

\* the positions step recorded for body k, one per substep
Recorded(out, k) ==
    Seq1([p \in 1..Len(out.passes) |->
            <<out.passes[p].entry[k].x, out.passes[p].entry[k].y>>],
         Len(out.passes))

\* physics.step(bodies, star, frameTime, {explosions})
EngineStep(limit, frameTime, seed) ==
    /\ frames < limit
    /\ \E out \in {step(bodies, ActiveStar, frameTime, explosions, seed)} :
           /\ bodies' = out.bodies
           /\ star' = IF out.star = <<>> THEN star ELSE out.star[1]
           /\ lastStep' = StepRecord(bodies, ActiveStar, frameTime,
                                     explosions, out)
           /\ hist' = Seq1([k \in 1..Len(bodies) |-> hist[k] \o Recorded(out, k)],
                           Len(bodies))
    /\ frames' = frames + 1
    /\ UNCHANGED <<mode, paused, lastTime, nextId, explosions, intents, saved,
                   atSave, orbit, placement, clickIntents, inspectedId,
                   camera, centred, ui, canvas, inputs, pruned, rafId,
                   lastFrame>>

NextEngine ==
    \E frameTime \in EngineTimes :
      \E seed \in (IF explosions THEN Seeds ELSE {0}) :
        EngineStep(MaxSteps, frameTime, seed)

SpecEngine == InitEngine /\ [][NextEngine]_vars

-----------------------------------------------------------------------------
(* Long runs of the engine: a collection is stepped until the trails of its *)
(* bodies have filled and turned over.                                      *)

MaxTrailSteps == 77   \* calls of step in one long run

\* a planet on a near-circular orbit at 100 px from the star; two bodies
\* drifting apart in free space
TrailCollections ==
    { << [x |-> 500, y |-> 300, vx |-> 0, vy |-> 141, mass |-> 100,
          radius |-> 8, color |-> "blue", type |-> "planet"] >>,
      << [x |-> 300, y |-> 300, vx |-> -7, vy |-> 3, mass |-> 100,
          radius |-> 8, color |-> "blue", type |-> "planet"],
         [x |-> 340, y |-> 300, vx |-> 9, vy |-> -5, mass |-> 2000,
          radius |-> 8, color |-> "white", type |-> "star"] >> }

InitTrail ==
    /\ \E c \in TrailCollections :
          /\ bodies = Construct(c)
          /\ nextId = Len(c) + 1
          /\ hist = Seq1([k \in 1..Len(c) |-> <<>>], Len(c))
          /\ mode = IF Len(c) = 1 THEN "star" ELSE "freeform"
    /\ star = [Star(0, 0) EXCEPT !.x = CANVAS_W \div 2, !.y = CANVAS_H \div 2]
    /\ explosions = FALSE
    /\ paused = FALSE
    /\ lastTime = <<>>
    /\ saved = <<>>
    /\ atSave = <<>>
    /\ orbit = NoOrbit
    /\ frames = 0
    /\ centred = TRUE
    /\ canvas = [w |-> CANVAS_W, h |-> CANVAS_H]
    /\ InitControls
    /\ rafId = TRUE
    /\ lastFrame = NoFrame
    /\ pruned = {}
    /\ lastStep = NoStep

NextTrail ==
    \E frameTime \in {(4 * TimeDen) \div 10} :
        EngineStep(MaxTrailSteps, frameTime, 0)

SpecTrail == InitTrail /\ [][NextTrail]_vars

-----------------------------------------------------------------------------
(* A long run of the engine for one body set on a circular orbit round the  *)
(* star: MaxOrbitSteps calls of step at the frame time of 60 frames a       *)
(* second.                                                                   *)

MaxOrbitSteps == 10000

FRAME_MS == 16

\* radii of the orbits tried, in px
OrbitRadii == {125, 200, 320}

InitOrbit ==
    /\ star = [Star(0, 0) EXCEPT !.x = CANVAS_W \div 2, !.y = CANVAS_H \div 2]
    /\ \E r \in OrbitRadii :
          orbit = [x |-> (star.x + r) * FineDen, y |-> star.y * FineDen,
                   vx |-> 0,
                   vy |-> circularOrbitVelocity(r * FineDen, 0, star.mass),
                   ax |-> 0, ay |-> 0, radius |-> 8, merged |-> FALSE]
    /\ bodies = <<>>
    /\ nextId = 1
    /\ hist = <<>>
    /\ mode = "star"
    /\ explosions = FALSE
    /\ paused = FALSE
    /\ lastTime = <<>>
    /\ saved = <<>>
    /\ atSave = <<>>
    /\ frames = 0
    /\ centred = TRUE
    /\ canvas = [w |-> CANVAS_W, h |-> CANVAS_H]
    /\ InitControls
    /\ rafId = TRUE
    /\ lastFrame = NoFrame
    /\ pruned = {}
    /\ lastStep = NoStep

\* one call of step for the body in orbit
OrbitStep ==
    /\ frames < MaxOrbitSteps
    /\ frames' = frames + 1
    /\ orbit' = FineSubsteps(orbit, star, FRAME_MS * SpeedDen, 1)
    /\ UNCHANGED <<bodies, star, mode, paused, lastTime, nextId, explosions,
                   intents, saved, atSave, placement, clickIntents,
                   inspectedId, camera, centred, ui, canvas, inputs, pruned,
                   lastStep, hist, rafId, lastFrame>>

SpecOrbit == InitOrbit /\ [][OrbitStep]_vars

\* the last n entries of a sequence
LastEntries(s, n) == SubSeq(s, Len(s) - n + 1, Len(s))

\* C10: after any sequence of step calls every body's trail holds at most
\* TRAIL_MAX_LENGTH (300) entries, and they are the most recently recorded
\* positions of the body, in the order they were recorded: the oldest entry
\* is the one evicted when a 301st is appended.
C10_TrailBounded ==
    \A k \in 1..Len(bodies) :
        /\ Len(bodies[k].trail) <= TRAIL_MAX_LENGTH
        /\ bodies[k].trail =
              LastEntries(hist[k], Min(Len(hist[k]), TRAIL_MAX_LENGTH))

\* C10 witness: a body that has recorded more than 300 positions, the first
\* of which differs from the oldest its trail still holds
C10_Witness ==
    \E k \in 1..Len(bodies) :
        /\ Len(hist[k]) > TRAIL_MAX_LENGTH
        /\ Len(bodies[k].trail) = TRAIL_MAX_LENGTH
        /\ bodies[k].trail[1] # hist[k][1]
        /\ bodies[k].trail[1] # bodies[k].trail[TRAIL_MAX_LENGTH]

\* C11 as claimed: a body created with an empty trail and advanced by k
\* calls of step has a trail of min(k, 300) entries.
C11_TrailLengthPerCall ==
    \A k \in 1..Len(bodies) :
        Len(bodies[k].trail) = Min(frames, TRAIL_MAX_LENGTH)

\* C11 amended: step records one position per substep, so after k calls
\* the trail of such a body has min(SUBSTEPS * k, 300) entries.
C11_TrailLengthPerSubstep ==
    \A k \in 1..Len(bodies) :
        Len(bodies[k].trail) = Min(SUBSTEPS * frames, TRAIL_MAX_LENGTH)

\* C11 witness: after a few calls a trail still growing, four entries a
\* call
C11_Witness ==
    /\ frames = 3
    /\ \E k \in 1..Len(bodies) : Len(bodies[k].trail) = SUBSTEPS * 3

\* C11 second witness: a trail that has reached the cap
C11_WitnessFull ==
    /\ SUBSTEPS * frames > TRAIL_MAX_LENGTH
    /\ \E k \in 1..Len(bodies) : Len(bodies[k].trail) = TRAIL_MAX_LENGTH

-----------------------------------------------------------------------------
(* The game: Game (js/Game.js), Input (js/Input.js), UI (js/UI.js) and the  *)
(* presets (js/Presets.js), one action per handler.  The run starts after   *)
(* new Game(canvas) and start().                                            *)

MaxFrames == 3      \* frames in one run
MaxInputs == 4      \* user events in one run

MAX_FRAME_MS == 100
CLICK_SQ == 36
INSPECT_MARGIN == 8
DENSITY_NUM == 100
DENSITY_DEN == 512

\* UI._radiusToMass and Game._massFromRadius: max(1, round(DENSITY * r^3))
massFromRadius(r) == Max(1, RoundDiv(DENSITY_NUM * r * r * r, DENSITY_DEN))

\* the star-mass slider at four of its positions v: the mass it stands for,
\* round(10^(4 + 3v/100)), and the least mass that setStarMass rounds to v
StarMassStops ==
    { [v |-> 0,   least |-> 1,       mass |-> 10000],
      [v |-> 33,  least |-> 94406,   mass |-> 97724],
      [v |-> 67,  least |-> 988553,  mass |-> 1023293],
      [v |-> 100, least |-> 9660509, mass |-> 10000000] }

\* UI._sliderToStarMass(v)
sliderToStarMass(v) == (CHOOSE s \in StarMassStops : s.v = v).mass

\* UI.setStarMass(mass): the slider position it leaves, for a mass that is
\* a power of ten or the mass of a stop
setStarMass(mass) ==
    (CHOOSE s \in StarMassStops :
        /\ s.least <= mass
        /\ \A t \in StarMassStops : t.least <= mass => t.least <= s.least).v

\* Math.pow(2, speed), in 1/SpeedDen
timeScale(speed) ==
    IF speed >= 0 THEN SpeedDen * 2^speed ELSE SpeedDen \div 2^(0 - speed)

\* UI.config
Config ==
    [radius |-> ui.size,
     mass |-> IF ui.bodyType = "star"
              THEN sliderToStarMass(ui.starMassSlider)
              ELSE massFromRadius(ui.size),
     newBodyColor |-> ui.color,
     type |-> ui.bodyType,
     starMass |-> sliderToStarMass(ui.starMassSlider),
     timeScale |-> timeScale(ui.speed),
     explosions |-> explosions]

\* two of the presets of js/Presets.js; an absent field is <<>>
PRESETS ==
    [binary |->
        [mode |-> <<"freeform">>, starMass |-> <<>>,
         bodies |-> <<
            [dx |-> -80, dy |-> 0, vx |-> 0, vy |-> -25, mass |-> <<100000>>,
             radius |-> 20, color |-> "#ffe066", type |-> "star"],
            [dx |-> 80, dy |-> 0, vx |-> 0, vy |-> 25, mass |-> <<100000>>,
             radius |-> 20, color |-> "#f8a840", type |-> "star"],
            [dx |-> 260, dy |-> 0, vx |-> 0, vy |-> 39, mass |-> <<5000>>,
             radius |-> 8, color |-> "#4fc3f7", type |-> "planet"] >>],
     comet |->
        [mode |-> <<"star">>, starMass |-> <<1000000>>,
         bodies |-> <<
            [dx |-> 450, dy |-> 0, vx |-> 0, vy |-> 30, mass |-> <<80>>,
             radius |-> 5, color |-> "#c8d8e0", type |-> "planet"] >>]]

\* a ?? b
OrElse(a, b) == IF a = <<>> THEN b ELSE a[1]

\* Game._screenToWorld(sx, sy) under camera cam
screenToWorld(cam, sx, sy) ==
    [x |-> RoundDiv((sx - cam.panX) * ZoomDen, cam.zoom),
     y |-> RoundDiv((sy - cam.panY) * ZoomDen, cam.zoom)]

\* a faulty spawn that refuses only what lies inside the star's disc; C28
\* tells it from Game lines 472-476
spawnBodyInDisc(g, st, intent) ==
    LET at == screenToWorld(camera, intent.x, intent.y)
        cfg == Config
    IN  IF mode = "star" /\ Within(at.x - st.x, at.y - st.y, st.radius)
        THEN g
        ELSE [bodies |->
                Append(g.bodies,
                       CelestialBody(g.nextId,
                          [x |-> at.x, y |-> at.y,
                           vx |-> RoundDiv(intent.vx * ZoomDen, camera.zoom),
                           vy |-> RoundDiv(intent.vy * ZoomDen, camera.zoom),
                           mass |-> cfg.mass, radius |-> cfg.radius,
                           color |-> cfg.newBodyColor, type |-> cfg.type])),
              nextId |-> g.nextId + 1]

\* Game._spawnBody(intent) on g = [bodies, nextId], the star being st
spawnBody(g, st, intent) ==
    LET at == screenToWorld(camera, intent.x, intent.y)
        cfg == Config
    IN  IF /\ mode = "star"
           /\ Within(at.x - st.x, at.y - st.y, st.radius + cfg.radius)
        THEN g
        ELSE [bodies |->
                Append(g.bodies,
                       CelestialBody(g.nextId,
                          [x |-> at.x, y |-> at.y,
                           vx |-> RoundDiv(intent.vx * ZoomDen, camera.zoom),
                           vy |-> RoundDiv(intent.vy * ZoomDen, camera.zoom),
                           mass |-> cfg.mass, radius |-> cfg.radius,
                           color |-> cfg.newBodyColor, type |-> cfg.type])),
              nextId |-> g.nextId + 1]

\* Game lines 311-317: the intents from the k-th on are spawned in order
RECURSIVE SpawnAll(_, _, _, _)
SpawnAll(g, st, its, k) ==
    IF k > Len(its) THEN g
    ELSE SpawnAll(spawnBody(g, st, its[k]), st, its, k + 1)

\* Game lines 322-327: the first body under a click, <<>> when there is none
Found(bs, click) ==
    LET at == screenToWorld(camera, click.x, click.y)
        hits == { k \in 1..Len(bs) :
                    Within(bs[k].x - at.x, bs[k].y - at.y,
                           bs[k].radius + INSPECT_MARGIN) }
    IN  IF hits = {} THEN <<>>
        ELSE << bs[CHOOSE k \in hits : \A h \in hits : k <= h].id >>

\* Game lines 320-329: every click sets the inspected id; the last one stays
Inspect(bs, clicks, inspected) ==
    IF clicks = <<>> THEN inspected ELSE Found(bs, clicks[Len(clicks)])

\* a faulty lookup that takes the id for a place in the collection; C29 tells
\* it from Game line 361
inspectedBodyAt(bs, inspected) ==
    IF inspected = <<>> \/ inspected[1] > Len(bs) THEN <<>>
    ELSE <<bs[inspected[1]]>>

\* Game line 361: bodies.find(b => b.id === _inspectedId) ?? null
inspectedBody(bs, inspected) ==
    LET hits == IF inspected = <<>> THEN {}
                ELSE {k \in 1..Len(bs) : bs[k].id = inspected[1]}
    IN  IF hits = {} THEN <<>>
        ELSE << bs[CHOOSE k \in hits : \A h \in hits : k <= h] >>

\* a faulty insertion that gives every fragment of a frame the same id; C12
\* tells it from Game lines 342-344
WithFragmentsOneId(bs, frags, id) ==
    bs \o Seq1([k \in 1..Len(frags) |-> CelestialBody(id, frags[k])],
               Len(frags))

\* Game lines 342-344: the fragments join the collection as new bodies
WithFragments(bs, frags, id) ==
    bs \o Seq1([k \in 1..Len(frags) |-> CelestialBody(id + k - 1, frags[k])],
               Len(frags))

\* dx * dx + dy * dy > reach * reach
Beyond(dx, dy, reach) == dx * dx + dy * dy > reach * reach

\* Game lines 348-355: bodies farther than ESCAPE_RADIUS from (cx, cy)
FlagEscaped(bs, cx, cy) ==
    Seq1([k \in 1..Len(bs) |->
            IF Beyond(bs[k].x - cx, bs[k].y - cy, ESCAPE_RADIUS)
            THEN [bs[k] EXCEPT !.escaped = TRUE]
            ELSE bs[k]],
         Len(bs))

Kept(b) == ~b.escaped /\ ~b.merged

Present(b) == ~b.escaped

Unmerged(b) == ~b.merged

\* a faulty pruning that drops the merged bodies only; C14 tells it from
\* Game line 358
PruneMerged(bs) == SelectSeq(bs, Unmerged)

\* a faulty pruning that drops the escaped bodies only; C6 tells it from
\* Game line 358
PruneEscaped(bs) == SelectSeq(bs, Present)

\* Game line 358
Prune(bs) == SelectSeq(bs, Kept)

Ids(bs) == { bs[k].id : k \in 1..Len(bs) }

InitGame ==
    /\ bodies = <<>>
    /\ star = Star(0, 0)
    /\ mode = "star"
    /\ paused = FALSE
    /\ lastTime = <<>>
    /\ nextId = 1
    /\ explosions = FALSE
    /\ saved = <<>>
    /\ atSave = <<>>
    /\ orbit = NoOrbit
    /\ frames = 0
    /\ centred = FALSE
    /\ canvas = [w |-> CANVAS_W, h |-> CANVAS_H]
    /\ InitControls
    /\ rafId = TRUE
    /\ lastFrame = NoFrame
    /\ pruned = {}
    /\ lastStep = NoStep
    /\ hist = <<>>

\* what Physics.step returns when it is not called
NotStepped(bs, st) ==
    [bodies |-> bs, star |-> st, fragments |-> <<>>, events |-> <<>>,
     passes |-> <<>>]

\* a faulty guard that steps whenever time has passed; C15 tells it from
\* Game line 337
SteppingAlways(p, dt) == dt > 0

\* Game line 337: the physics runs when the game is not paused and dt > 0
Stepping(p, dt) == ~p /\ dt > 0

\* Game lines 311-317: the pending intents are spawned, or discarded when the
\* game is paused (p)
Flush(g, st, its, p) == IF p THEN g ELSE SpawnAll(g, st, its, 1)

\* a faulty time slice without the cap; C24 tells it from Game lines 302-307
FrameTimeUncapped(last, timestamp, scale) ==
    IF last = <<>> THEN 0 ELSE (timestamp - last[1]) * scale

\* Game lines 302-307: dt, in 1/TimeDen s, of the frame at timestamp (ms) when
\* _lastTime is last and the time warp is scale / SpeedDen
FrameTime(last, timestamp, scale) ==
    IF last = <<>> THEN 0 ELSE Min(timestamp - last[1], MAX_FRAME_MS) * scale

\* Game._loop(timestamp); seed generates the values of Math.random()
Loop(timestamp, seed) ==
    LET centre == IF centred THEN star
                  ELSE [star EXCEPT !.x = canvas.w \div 2,
                                    !.y = canvas.h \div 2]
        dt == FrameTime(lastTime, timestamp, Config.timeScale)
        spawned == Flush([bodies |-> bodies, nextId |-> nextId], centre,
                         intents, paused)
        synced == IF mode = "star"
                  THEN [centre EXCEPT !.mass = Config.starMass]
                  ELSE centre
        activeStar == IF mode = "star" THEN <<synced>> ELSE <<>>
        stepping == Stepping(paused, dt)
        ecx == IF mode = "star" THEN synced.x ELSE canvas.w \div 2
        ecy == IF mode = "star" THEN synced.y ELSE canvas.h \div 2
    IN  /\ frames < MaxFrames
        /\ rafId
        /\ rafId' = TRUE
        /\ \E out \in { IF stepping
                        THEN step(spawned.bodies, activeStar, dt,
                                  Config.explosions, seed)
                        ELSE NotStepped(spawned.bodies, activeStar) } :
             \E flagged \in { FlagEscaped(
                                WithFragments(out.bodies, out.fragments,
                                              spawned.nextId),
                                ecx, ecy) } :
               /\ bodies' = Prune(flagged)
               /\ pruned' = pruned \cup (Ids(flagged) \ Ids(Prune(flagged)))
               /\ lastFrame' =
                    [first |-> lastTime = <<>>, asked |-> Len(intents),
                     spawned |-> spawned.nextId - nextId,
                     inspected |->
                        inspectedBody(Prune(flagged),
                                      Inspect(spawned.bodies, clickIntents,
                                              inspectedId))]
               /\ nextId' = spawned.nextId + Len(out.fragments)
               /\ star' = OrElse(out.star, synced)
               /\ lastStep' = IF stepping
                              THEN StepRecord(spawned.bodies, activeStar, dt,
                                              Config.explosions, out)
                              ELSE NoStep
        /\ inspectedId' = Inspect(spawned.bodies, clickIntents, inspectedId)
        /\ centred' = TRUE
        /\ lastTime' = <<timestamp>>
        /\ intents' = <<>>
        /\ clickIntents' = <<>>
        /\ frames' = frames + 1
        /\ UNCHANGED <<mode, paused, explosions, saved, atSave, orbit,
                       placement, camera, ui, canvas, inputs, hist>>

\* one more user event
Input ==
    /\ inputs < MaxInputs
    /\ inputs' = inputs + 1
    /\ UNCHANGED <<frames, lastStep, hist, pruned, lastTime, centred, canvas,
                   rafId, lastFrame>>

\* Game.stop()
stop ==
    /\ inputs < MaxInputs
    /\ inputs' = inputs + 1
    /\ rafId' = FALSE
    /\ UNCHANGED <<bodies, star, mode, paused, lastTime, nextId, explosions,
                   intents, saved, atSave, orbit, placement, clickIntents,
                   inspectedId, camera, ui, frames, lastStep, hist, pruned,
                   centred, canvas, lastFrame>>

\* Game.togglePause(): a resume restarts the loop when no frame is requested
togglePause ==
    /\ inputs < MaxInputs
    /\ inputs' = inputs + 1
    /\ paused' = ~paused
    /\ IF ~paused' /\ ~rafId
       THEN lastTime' = <<>> /\ rafId' = TRUE
       ELSE UNCHANGED <<lastTime, rafId>>
    /\ UNCHANGED <<bodies, star, mode, nextId, explosions, intents, saved,
                   atSave, orbit, placement, clickIntents, inspectedId,
                   camera, ui, frames, lastStep, hist, pruned, centred,
                   canvas, lastFrame>>

\* Game.reset()
reset ==
    /\ Input
    /\ bodies' = <<>>
    /\ inspectedId' = <<>>
    /\ UNCHANGED <<star, mode, paused, nextId, explosions, intents, saved,
                   atSave, orbit, placement, clickIntents, camera, ui>>

\* UI._selectMode(mode), which calls Game._setMode(mode)
setMode(m) ==
    /\ Input
    /\ mode' = m
    /\ UNCHANGED <<bodies, star, paused, nextId, explosions, intents, saved,
                   atSave, orbit, placement, clickIntents, inspectedId,
                   camera, ui>>

\* UI lines 77-80: the explosions button
toggleExplosions ==
    /\ Input
    /\ explosions' = ~explosions
    /\ UNCHANGED <<bodies, star, mode, paused, nextId, intents, saved, atSave,
                   orbit, placement, clickIntents, inspectedId, camera, ui>>

\* Game._applyPreset(name)
applyPreset(name) ==
    LET preset == PRESETS[name]
        m == OrElse(preset.mode, "star")
        cx == IF m = "star" THEN star.x ELSE canvas.w \div 2
        cy == IF m = "star" THEN star.y ELSE canvas.h \div 2
        n == Len(preset.bodies)
    IN  /\ Input
        /\ mode' = m
        /\ ui' = IF m = "star"
                 THEN [ui EXCEPT !.starMassSlider =
                          setStarMass(OrElse(preset.starMass, 1000000))]
                 ELSE ui
        /\ inspectedId' = <<>>
        /\ camera' = [panX |-> 0, panY |-> 0, zoom |-> ZoomDen]
        /\ bodies' =
             Seq1([k \in 1..n |->
                     CelestialBody(nextId + k - 1,
                        [x |-> cx + preset.bodies[k].dx,
                         y |-> cy + preset.bodies[k].dy,
                         vx |-> preset.bodies[k].vx,
                         vy |-> preset.bodies[k].vy,
                         mass |-> OrElse(preset.bodies[k].mass,
                                    massFromRadius(preset.bodies[k].radius)),
                         radius |-> preset.bodies[k].radius,
                         color |-> preset.bodies[k].color,
                         type |-> preset.bodies[k].type])], n)
        /\ nextId' = nextId + n
        /\ UNCHANGED <<star, paused, explosions, intents, saved, atSave,
                       orbit, placement, clickIntents>>

\* Game lines 418-419 and 441-442: the reference point of a save in mode m
Reference(m) ==
    IF m = "star" THEN [x |-> star.x, y |-> star.y]
    ELSE [x |-> canvas.w \div 2, y |-> canvas.h \div 2]

\* a faulty save that writes the positions as they are, not relative to the
\* reference point; C16 tells it from Game lines 420-428
SaveDataAbsolute ==
    [mode |-> mode,
     starMass |-> Config.starMass,
     bodies |->
       Seq1([k \in 1..Len(bodies) |->
               [dx |-> bodies[k].x, dy |-> bodies[k].y,
                vx |-> bodies[k].vx, vy |-> bodies[k].vy,
                mass |-> bodies[k].mass, radius |-> bodies[k].radius,
                color |-> bodies[k].color, type |-> bodies[k].type]],
            Len(bodies))]

\* Game lines 420-428: the data of a save of the present scene
SaveData ==
    [mode |-> mode,
     starMass |-> Config.starMass,
     bodies |->
       Seq1([k \in 1..Len(bodies) |->
               [dx |-> bodies[k].x - Reference(mode).x,
                dy |-> bodies[k].y - Reference(mode).y,
                vx |-> bodies[k].vx, vy |-> bodies[k].vy,
                mass |-> bodies[k].mass, radius |-> bodies[k].radius,
                color |-> bodies[k].color, type |-> bodies[k].type]],
            Len(bodies))]

\* the scene as it is, kept to compare a later Load with
Scene == [mode |-> mode, bodies |-> bodies, ref |-> Reference(mode)]

\* Game._save(): the data written, which JSON gives back as written
save ==
    /\ Input
    /\ saved' = <<SaveData>>
    /\ atSave' = <<Scene>>
    /\ UNCHANGED <<orbit, bodies, star, mode, paused, nextId, explosions,
                   intents, placement, clickIntents, inspectedId, camera, ui>>

\* Game._load()
load ==
    /\ saved # <<>>
    /\ Input
    /\ LET data == saved[1]
           n == Len(data.bodies)
       IN  /\ mode' = data.mode
           /\ ui' = [ui EXCEPT !.starMassSlider = setStarMass(data.starMass)]
           /\ bodies' =
                Seq1([k \in 1..n |->
                        CelestialBody(nextId + k - 1,
                           [x |-> Reference(data.mode).x + data.bodies[k].dx,
                            y |-> Reference(data.mode).y + data.bodies[k].dy,
                            vx |-> data.bodies[k].vx,
                            vy |-> data.bodies[k].vy,
                            mass |-> data.bodies[k].mass,
                            radius |-> data.bodies[k].radius,
                            color |-> data.bodies[k].color,
                            type |-> data.bodies[k].type])], n)
           /\ nextId' = nextId + n
    /\ inspectedId' = <<>>
    /\ UNCHANGED <<star, paused, explosions, intents, saved, atSave, orbit,
                   placement, clickIntents, camera>>

\* Game._removeBody(id)
removeBody(id) ==
    /\ Input
    /\ bodies' = SelectSeq(bodies, LAMBDA b : b.id # id)
    /\ inspectedId' = IF inspectedId = <<id>> THEN <<>> ELSE inspectedId
    /\ UNCHANGED <<star, mode, paused, nextId, explosions, intents, saved,
                   atSave, orbit, placement, clickIntents, camera, ui>>

\* Input._commit(): the queues after placement p is committed; held notes,
\* for the properties, whether the game was paused at that moment
commit(p) ==
    LET dx == p.tipX - p.anchorX
        dy == p.tipY - p.anchorY
    IN  IF dx * dx + dy * dy < CLICK_SQ
        THEN [intents |-> intents,
              clicks |-> Append(clickIntents,
                                [x |-> p.anchorX, y |-> p.anchorY])]
        ELSE [intents |-> Append(intents,
                                 [x |-> p.anchorX, y |-> p.anchorY,
                                  vx |-> RoundDiv(dx * 3, 2),
                                  vy |-> RoundDiv(dy * 3, 2),
                                  held |-> paused]),
              clicks |-> clickIntents]

\* Input._onDown(e), left button at canvas position p
onDown(p) ==
    /\ Input
    /\ placement' = [phase |-> "dragging", anchorX |-> p[1], anchorY |-> p[2],
                     tipX |-> p[1], tipY |-> p[2]]
    /\ UNCHANGED <<bodies, star, mode, paused, nextId, explosions, intents,
                   saved, atSave, orbit, clickIntents, inspectedId, camera,
                   ui>>

\* Input._onMove(e) at canvas position p
onMove(p) ==
    /\ placement.phase = "dragging"
    /\ Input
    /\ placement' = [placement EXCEPT !.tipX = p[1], !.tipY = p[2]]
    /\ UNCHANGED <<bodies, star, mode, paused, nextId, explosions, intents,
                   saved, atSave, orbit, clickIntents, inspectedId, camera,
                   ui>>

\* Input._onUp(e), left button at canvas position p
onUp(p) ==
    /\ placement.phase = "dragging"
    /\ Input
    /\ LET done == commit([placement EXCEPT !.tipX = p[1], !.tipY = p[2]])
       IN  /\ intents' = done.intents
           /\ clickIntents' = done.clicks
    /\ placement' = IdlePlacement
    /\ UNCHANGED <<bodies, star, mode, paused, nextId, explosions, saved,
                   atSave, orbit, inspectedId, camera, ui>>

\* Input._onLeave()
onLeave ==
    /\ placement.phase = "dragging"
    /\ Input
    /\ LET done == commit(placement)
       IN  /\ intents' = done.intents
           /\ clickIntents' = done.clicks
    /\ placement' = IdlePlacement
    /\ UNCHANGED <<bodies, star, mode, paused, nextId, explosions, saved,
                   atSave, orbit, inspectedId, camera, ui>>

\* time between two frames, in ms: none, a frame at 10 fps, a stalled tab
FrameGaps == {0, 100, 250}

\* canvas positions of the pointer
ScreenPoints == {<<500, 300>>, <<560, 300>>}

PresetNames == {"binary", "comet"}

Next ==
    \/ \E gap \in (IF lastTime = <<>> THEN {0} ELSE FrameGaps) :
         \E seed \in (IF explosions THEN Seeds ELSE {0}) :
           Loop(OrElse(lastTime, 0) + gap, seed)
    \/ togglePause
    \/ reset
    \/ \E m \in {"star", "freeform"} : setMode(m)
    \/ toggleExplosions
    \/ \E name \in PresetNames : applyPreset(name)
    \/ save
    \/ load
    \/ \E id \in 1..(nextId - 1) : removeBody(id)
    \/ \E p \in ScreenPoints : onDown(p)
    \/ \E p \in ScreenPoints : onMove(p)
    \/ \E p \in ScreenPoints : onUp(p)
    \/ onLeave

Spec == InitGame /\ [][Next]_vars

-----------------------------------------------------------------------------
(* The camera under the wheel: the game as constructed, the user scrolling. *)

MaxWheel == 24

WHEEL_IN == 11      \* factor 1.1, in tenths
WHEEL_OUT == 9      \* factor 0.9, in tenths
WHEEL_DEN == 10
MAX_ZOOM == 20
MIN_ZOOM_INV == 10  \* the least zoom is 0.1 = 1 / 10

\* Input line 218: zoom * factor before it is clamped, factor = f / WHEEL_DEN
Scaled(zoom, f) == RoundDiv(zoom * f, WHEEL_DEN)

\* Input line 218: Math.min(20, Math.max(0.1, z))
Clamped(z) == Min(MAX_ZOOM * ZoomDen, Max(ZoomDen \div MIN_ZOOM_INV, z))

\* Input._onWheel(e) with the cursor at canvas position p
onWheel(p, deltaY) ==
    LET f == IF deltaY < 0 THEN WHEEL_IN ELSE WHEEL_OUT
    IN  /\ inputs < MaxWheel
        /\ inputs' = inputs + 1
        /\ camera' =
             [panX |-> p[1] - RoundDiv((p[1] - camera.panX) * f, WHEEL_DEN),
              panY |-> p[2] - RoundDiv((p[2] - camera.panY) * f, WHEEL_DEN),
              zoom |-> Clamped(Scaled(camera.zoom, f))]
        /\ UNCHANGED <<bodies, star, mode, paused, lastTime, nextId,
                       explosions, intents, saved, atSave, orbit, frames,
                       placement, clickIntents, inspectedId, centred, ui,
                       canvas, pruned, lastStep, hist, rafId, lastFrame>>

\* e.deltaY of a wheel event: scroll up, scroll down
WheelDeltas == {-100, 100}

NextCamera ==
    \E p \in ScreenPoints : \E deltaY \in WheelDeltas : onWheel(p, deltaY)

SpecCamera == InitGame /\ [][NextCamera]_vars

-----------------------------------------------------------------------------
(* A game in play: the scene is one that Load has just restored from an     *)
(* earlier save, the first frame has run, and the user works the controls.  *)

\* the size slider, UI._onSizeChange(): the slider is at r
onSizeChange(r) ==
    /\ Input
    /\ ui' = [ui EXCEPT !.size = r]
    /\ UNCHANGED <<bodies, star, mode, paused, nextId, explosions, intents,
                   saved, atSave, orbit, placement, clickIntents, inspectedId,
                   camera>>

\* UI._selectBodyType(type)
selectBodyType(type) ==
    /\ Input
    /\ ui' = [ui EXCEPT !.bodyType = type,
                        !.color = IF type = "star" THEN "#ffe066"
                                  ELSE "#4fc3f7"]
    /\ UNCHANGED <<bodies, star, mode, paused, nextId, explosions, intents,
                   saved, atSave, orbit, placement, clickIntents, inspectedId,
                   camera>>

\* Game._onResize() when the layout gives the canvas the size <<w, h>>
onResize(size) ==
    /\ inputs < MaxInputs
    /\ inputs' = inputs + 1
    /\ canvas' = [w |-> size[1], h |-> size[2]]
    /\ star' = [star EXCEPT !.x = size[1] \div 2, !.y = size[2] \div 2]
    /\ camera' = [camera EXCEPT !.panX = 0, !.panY = 0]
    /\ UNCHANGED <<bodies, mode, paused, nextId, explosions, intents, saved,
                   atSave, orbit, placement, clickIntents, inspectedId, ui,
                   frames, lastStep, hist, pruned, lastTime, centred, rafId,
                   lastFrame>>

\* sizes the window is resized to: a narrower canvas
CanvasSizes == {<<600, 600>>}

\* scenes: none; a planet in orbit and one about to cross the escape radius
\* of the star; in free space two overlapping bodies of one size and one
\* about to cross the escape radius of the canvas centre
PlayScenes ==
    { [mode |-> "star", bodies |-> <<>>],
      [mode |-> "star", bodies |-> <<
          [x |-> 500, y |-> 300, vx |-> 0, vy |-> 141, mass |-> 100,
           radius |-> 8, color |-> "#4fc3f7", type |-> "planet"],
          [x |-> 5395, y |-> 300, vx |-> 200, vy |-> 0, mass |-> 100,
           radius |-> 8, color |-> "#4fc3f7", type |-> "planet"] >>],
      [mode |-> "freeform", bodies |-> <<
          [x |-> 300, y |-> 300, vx |-> 10, vy |-> 0, mass |-> 100,
           radius |-> 8, color |-> "#4fc3f7", type |-> "planet"],
          [x |-> 310, y |-> 300, vx |-> -10, vy |-> 4, mass |-> 5,
           radius |-> 8, color |-> "#c8d8e0", type |-> "planet"],
          [x |-> 400, y |-> 5290, vx |-> 0, vy |-> 150, mass |-> 12500,
           radius |-> 40, color |-> "#4fc3f7", type |-> "planet"] >>] }

\* the sizes the slider is moved to: its least and its greatest
Sizes == {3, 40}

InitPlay ==
    /\ \E scene \in PlayScenes :
          /\ mode = scene.mode
          /\ bodies = Construct(scene.bodies)
          /\ nextId = Len(scene.bodies) + 1
    /\ placement = IdlePlacement
    /\ intents = <<>>
    /\ clickIntents = <<>>
    /\ inspectedId = <<>>
    /\ camera = [panX |-> 0, panY |-> 0, zoom |-> ZoomDen]
    /\ ui = [size |-> 8, bodyType |-> "planet", color |-> "#4fc3f7",
             starMassSlider |-> 67, speed |-> 0]
    /\ explosions = FALSE
    /\ canvas = [w |-> CANVAS_W, h |-> CANVAS_H]
    /\ star = [Star(0, 0) EXCEPT !.x = CANVAS_W \div 2, !.y = CANVAS_H \div 2,
                                 !.mass = Config.starMass]
    /\ paused = FALSE
    /\ lastTime = <<0>>
    /\ saved = <<SaveData>>
    /\ atSave = <<Scene>>
    /\ orbit = NoOrbit
    /\ frames = 1
    /\ inputs = 1
    /\ rafId = TRUE
    /\ lastFrame = [NoFrame EXCEPT !.first = TRUE]
    /\ centred = TRUE
    /\ pruned = {}
    /\ lastStep = NoStep
    /\ hist = <<>>

NextPlay ==
    \/ \E gap \in FrameGaps :
         \E seed \in (IF explosions THEN Seeds ELSE {0}) :
           Loop(OrElse(lastTime, 0) + gap, seed)
    \/ togglePause
    \/ toggleExplosions
    \/ \E r \in Sizes : onSizeChange(r)
    \/ \E type \in {"planet", "star"} : selectBodyType(type)
    \/ \E p \in ScreenPoints : onDown(p)
    \/ \E p \in ScreenPoints : onUp(p)
    \/ \E size \in CanvasSizes : onResize(size)

SpecPlay == InitPlay /\ [][NextPlay]_vars

\* C6: the game loop prunes between steps: no body in the collection at the
\* entry of a call of Physics.step is flagged merged or escaped, no flagged
\* body outlives the frame that flagged it, and a pruned body never comes
\* back, so it plays no part in any later step.
C6_NoFlaggedAtStepEntry ==
    /\ \A k \in 1..Len(bodies) : Kept(bodies[k]) /\ bodies[k].id \notin pruned
    /\ lastStep.called =>
          \A k \in 1..Len(lastStep.entry) : Kept(lastStep.entry[k])

\* C6 witness: a step was run on a collection from which an earlier frame
\* had pruned a flagged body
C6_Witness ==
    /\ lastStep.called
    /\ lastStep.entry # <<>>
    /\ \E id \in pruned : id \notin Ids(lastStep.entry)

-----------------------------------------------------------------------------
(* Properties of the collision resolver, about the last call of step *)

Events == {lastStep.events[n] : n \in 1..Len(lastStep.events)}
Merges == {e \in Events : e.kind = "merge"}
Explosions == {e \in Events : e.kind = "explode"}

RECURSIVE SumOver(_, _, _)
\* sum of field(frags[n]) for n in 1..k, field one of "m", "mvx", "mvy"
SumOver(frags, k, field) ==
    IF k = 0 THEN 0
    ELSE SumOver(frags, k - 1, field)
         + (CASE field = "m"   -> frags[k].mass
              [] field = "mvx" -> frags[k].mass * frags[k].vx
              [] field = "mvy" -> frags[k].mass * frags[k].vy)

\* C1: in a merge of two unflagged bodies a and b the survivor's mass is
\* a.mass + b.mass and its momentum is a's plus b's along each axis, to
\* within the rounding of the one division that computes its velocity (half
\* a unit of velocity); no mass or momentum is lost.
C1_MergeConserves ==
    \A e \in Merges :
        (~e.a.merged /\ ~e.b.merged) =>
            LET s == e.after[e.i]
            IN  /\ s.mass = e.a.mass + e.b.mass
                /\ 2 * Abs(s.mass * s.vx - (e.a.mass * e.a.vx + e.b.mass * e.b.vx))
                      <= s.mass
                /\ 2 * Abs(s.mass * s.vy - (e.a.mass * e.a.vy + e.b.mass * e.b.vy))
                      <= s.mass

\* C1 witness: a merge of two unflagged bodies of different mass and velocity
C1_Witness ==
    \E e \in Merges :
        /\ ~e.a.merged /\ ~e.b.merged
        /\ e.a.mass # e.b.mass
        /\ e.a.vy # e.b.vy
        /\ e.a.mass * e.a.vy + e.b.mass * e.b.vy # 0

\* C2: within one collision pass, in merge mode and in explode mode, a body
\* flagged merged during the pass takes part in no further pair of that
\* pass: every participant of a resolved pair is unflagged when it is
\* resolved, and no body is in two explosions of one pass.
C2_NoFlaggedParticipant ==
    /\ \A e \in Events : ~e.a.merged /\ ~e.b.merged
    /\ \A e, f \in Explosions :
          (e # f /\ e.pass = f.pass) => {e.i, e.j} \cap {f.i, f.j} = {}

\* C5: the fragment masses of an explosion of a pair of positive mass sum to
\* the pair's combined mass to within N - 1 units, N the fragment count.
C5_FragmentMassTolerance ==
    \A e \in Explosions :
        (e.a.mass > 0 /\ e.b.mass > 0) =>
            Abs(SumOver(e.frags, Len(e.frags), "m") - (e.a.mass + e.b.mass))
                <= Len(e.frags) - 1

\* C5 witness: an explosion whose fragment masses do not sum to the pair's
\* mass, and one of more than three fragments
C5_Witness ==
    /\ \E e \in Explosions :
          SumOver(e.frags, Len(e.frags), "m") # e.a.mass + e.b.mass
    /\ \E e \in Explosions : Len(e.frags) > MIN_FRAGMENTS

-----------------------------------------------------------------------------
(* Properties of one call of step *)

Called == lastStep.called
Indices == 1..Len(lastStep.entry)
Passes == 1..Len(lastStep.passes)

\* the indices of the bodies that absorbed another in the call
Survivors == {e.i : e \in Merges}

SameKinematics(b, c) ==
    b.x = c.x /\ b.y = c.y /\ b.vx = c.vx /\ b.vy = c.vy

\* C3 as claimed: a call with frameTimeSec = 0 leaves every body's position,
\* velocity and trail (contents and length) as they were.
C3_ZeroStepNoOp ==
    (Called /\ lastStep.frameTime = 0) =>
        \A k \in Indices :
            /\ SameKinematics(lastStep.exit[k], lastStep.entry[k])
            /\ lastStep.exit[k].trail = lastStep.entry[k].trail

\* C3 amended: a call with frameTimeSec = 0 does not integrate (a body's
\* position and velocity change only if it absorbs another body in a merge
\* of that call) but it is no no-op: the collision passes run and every
\* body's trail gains one entry per substep, the oldest entries evicted
\* beyond TRAIL_MAX_LENGTH; for a body that absorbed nothing the new entries
\* are copies of its position.
C3_ZeroStepKeepsKinematics ==
    (Called /\ lastStep.frameTime = 0) =>
        \A k \in Indices :
            LET before == lastStep.entry[k]
                after == lastStep.exit[k]
                grown == Min(Len(before.trail) + SUBSTEPS, TRAIL_MAX_LENGTH)
            IN  /\ Len(after.trail) = grown
                /\ k \notin Survivors =>
                      /\ SameKinematics(after, before)
                      /\ \A n \in 1..Min(SUBSTEPS, grown) :
                            after.trail[grown + 1 - n] = <<before.x, before.y>>

\* C3 witness: a zero-time call on a moving body that the star or another
\* body pulls and that absorbed nothing
C3_Witness ==
    /\ Called /\ lastStep.frameTime = 0
    /\ \E k \in Indices :
          /\ k \notin Survivors
          /\ lastStep.exit[k].vy # 0
          /\ lastStep.exit[k].ax # 0

\* the centre-of-mass velocity of an exploded pair, to the nearest unit
ComVx(e) == RoundDiv(e.a.mass * e.a.vx + e.b.mass * e.b.vx, e.a.mass + e.b.mass)
ComVy(e) == RoundDiv(e.a.mass * e.a.vy + e.b.mass * e.b.vy, e.a.mass + e.b.mass)

\* C4 as claimed: whatever the random draws, the mass-weighted average
\* velocity of the fragments of an explosion is the pair's centre-of-mass
\* velocity (to within the rounding of the fragments' velocities, one unit
\* each).
C4_FragmentsKeepComVelocity ==
    \A e \in Explosions :
        LET N == Len(e.frags)
            m == SumOver(e.frags, N, "m")
        IN  /\ Abs(SumOver(e.frags, N, "mvx") - m * ComVx(e)) <= m
            /\ Abs(SumOver(e.frags, N, "mvy") - m * ComVy(e)) <= m

\* C4 amended: the fragments are thrown about the pair's centre-of-mass
\* velocity, each with a kick of less than 1.3 kickSpeed, so the
\* mass-weighted average velocity of the fragments lies within 1.3 kickSpeed
\* (plus the rounding unit) of the centre-of-mass velocity along each axis;
\* it need not equal it, the kicks cancel only for some draws.
C4_FragmentsNearComVelocity ==
    \A e \in Explosions :
        LET N == Len(e.frags)
            m == SumOver(e.frags, N, "m")
            reach == 13 * KickSpeed(e.a, e.b) + 10
        IN  /\ 10 * Abs(SumOver(e.frags, N, "mvx") - m * ComVx(e)) <= m * reach
            /\ 10 * Abs(SumOver(e.frags, N, "mvy") - m * ComVy(e)) <= m * reach

\* C4 witness: an explosion of two bodies of different mass and velocity
\* whose kick speed is above the floor
C4_Witness ==
    \E e \in Explosions :
        /\ e.a.mass # e.b.mass
        /\ e.a.vy # e.b.vy
        /\ KickSpeed(e.a, e.b) > KICK_FLOOR

\* the centre of b is closer to the star than star.radius + b.radius / 2
InStarReach(b, st) ==
    4 * ((b.x - st.x) * (b.x - st.x) + (b.y - st.y) * (b.y - st.y))
       < (2 * st.radius + b.radius) * (2 * st.radius + b.radius)

\* C7: in every collision pass with a star, in merge mode and in explode
\* mode, every body closer to the star than star.radius + 0.5 * radius when
\* the pass begins is flagged merged by the pass and is in no pair the pass
\* resolves: it yields no fragments and is merged into no body.
C7_StarAbsorbs ==
    (Called /\ lastStep.star # <<>>) =>
        \A p \in Passes : \A k \in Indices :
            InStarReach(lastStep.passes[p].entry[k], lastStep.star[1]) =>
                /\ lastStep.passes[p].exit[k].merged
                /\ \A e \in Events : e.pass = p => (e.i # k /\ e.j # k)

\* C7 witness: in each mode a pass that begins with an unflagged body inside
\* the star's reach overlapping an unflagged body outside it
C7_WitnessIn(scatter) ==
    /\ Called /\ lastStep.star # <<>> /\ lastStep.explosions = scatter
    /\ \E k, n \in Indices :
          LET b == lastStep.passes[1].entry[k]
              c == lastStep.passes[1].entry[n]
          IN  /\ k # n
              /\ ~b.merged /\ ~c.merged
              /\ InStarReach(b, lastStep.star[1])
              /\ ~InStarReach(c, lastStep.star[1])
              /\ Overlap(b, c)

C7_Witness == C7_WitnessIn(TRUE)

\* C8: step leaves the star's position, mass and radius as they were, also
\* when bodies are absorbed by it.
C8_StarUntouched ==
    Called => lastStep.starOut = lastStep.star

\* C8 witness: a call with time passing in which the star absorbed a body
C8_Witness ==
    /\ Called /\ lastStep.star # <<>> /\ lastStep.frameTime > 0
    /\ \E p \in Passes : \E k \in Indices :
          /\ ~lastStep.passes[p].entry[k].merged
          /\ lastStep.passes[p].scan[k].merged

\* C9: step neither inserts into nor removes from the collection (same
\* bodies in the same order before and after); both bodies of an exploded
\* pair are flagged merged and stay; the fragments are in the returned list
\* only.
C9_CollectionKept ==
    Called =>
        /\ Len(lastStep.exit) = Len(lastStep.entry)
        /\ \A k \in Indices : lastStep.exit[k].id = lastStep.entry[k].id
        /\ \A e \in Explosions :
              /\ lastStep.exit[e.i].merged /\ lastStep.exit[e.j].merged
              /\ \A n \in 1..Len(e.frags) :
                    \E q \in 1..Len(lastStep.fragments) :
                        lastStep.fragments[q] = e.frags[n]
        /\ (Explosions = {}) = (lastStep.fragments = <<>>)

\* C9 witness: a call in which a pair exploded
C9_Witness == Called /\ Explosions # {}

-----------------------------------------------------------------------------
(* Properties of the game *)

\* no two live bodies share an id, and every live id has been handed out
DistinctIds ==
    /\ \A k, n \in 1..Len(bodies) : k # n => bodies[k].id # bodies[n].id
    /\ \A k \in 1..Len(bodies) : bodies[k].id \in 1..(nextId - 1)

\* every body of the next collection is a body of this one or has an id
\* that has not been handed out before
FreshIds ==
    /\ nextId' >= nextId
    /\ \A k \in 1..Len(bodies') :
          \/ bodies'[k].id \in Ids(bodies)
          \/ bodies'[k].id \in nextId..(nextId' - 1)

\* C12: over any sequence of gesture spawns, fragment insertions, presets,
\* save/load, reset and removals every new body gets an id greater than all
\* ids handed out before it: no two live bodies share an id and the id of a
\* removed body is never used again.
C12_IdsUnique == []DistinctIds /\ [][FreshIds]_vars

\* C12 witness: the fragments of an explosion have joined the collection
\* under the newest ids, and the ids of the bodies pruned are no longer live
C12_Witness ==
    /\ lastStep.called /\ Len(lastStep.fragments) >= 2
    /\ pruned # {}
    /\ \A f \in 1..Len(lastStep.fragments) : (nextId - f) \in Ids(bodies)

Positive(b) == b.mass > 0 /\ b.radius > 0

\* C13: every body that enters the live collection (spawned by a gesture
\* from the UI config with the size slider at 3 or more, a preset or saved
\* body, a fragment) and every merge survivor has mass > 0 and radius > 0.
C13_PositiveMassRadius ==
    /\ \A k \in 1..Len(bodies) : Positive(bodies[k])
    /\ lastStep.called =>
          /\ \A k \in 1..Len(lastStep.exit) : Positive(lastStep.exit[k])
          /\ \A k \in 1..Len(lastStep.fragments) :
                Positive(lastStep.fragments[k])

\* C13 witness: a frame in which a body spawned with the size slider at its
\* least joined the collection and a merge left a survivor
C13_Witness ==
    /\ lastStep.called /\ Merges # {}
    /\ \E k \in 1..Len(bodies) :
          bodies[k].radius = 3 /\ bodies[k].mass = massFromRadius(3)

\* C13 second witness: fragments and a spawned star-type body are live
C13_WitnessFragments ==
    /\ lastStep.called /\ lastStep.fragments # <<>>
    /\ \E k \in 1..Len(bodies) : bodies[k].id >= nextId - Len(lastStep.fragments)

\* body b is farther than ESCAPE_RADIUS from the escape centre of a frame
\* whose active star is st (<<>> in freeform mode) on canvas cv
Escaping(b, st, cv) ==
    LET cx == IF st = <<>> THEN cv.w \div 2 ELSE st[1].x
        cy == IF st = <<>> THEN cv.h \div 2 ELSE st[1].y
    IN  (b.x - cx) * (b.x - cx) + (b.y - cy) * (b.y - cy)
           > ESCAPE_RADIUS * ESCAPE_RADIUS

\* what a frame leaves: no live body beyond the escape radius, and every
\* body that was there when the frame looked is pruned
FrameEnd ==
    frames' = frames + 1 =>
        LET st == IF mode' = "star" THEN <<star'>> ELSE <<>>
        IN  /\ \A k \in 1..Len(bodies') : ~Escaping(bodies'[k], st, canvas')
            /\ \A k \in 1..Len(lastStep'.exit) :
                  Escaping(lastStep'.exit[k], st, canvas') =>
                     lastStep'.exit[k].id \in pruned'
            /\ ~lastStep'.called =>
                  \A k \in 1..Len(bodies) :
                     Escaping(bodies[k], st, canvas') =>
                        bodies[k].id \in pruned'

\* C14: at the end of every frame, paused or not, no live body is farther
\* than ESCAPE_RADIUS (5000) from the escape centre (the star in star mode,
\* the canvas centre in freeform mode): a body found there is flagged and
\* removed in the same frame.
C14_EscapedPruned == [][FrameEnd]_vars

\* C14 witness: a step carried an unmerged body across the escape radius
\* and the frame removed it
C14_Witness ==
    /\ lastStep.called
    /\ \E k \in 1..Len(lastStep.exit) :
          /\ Escaping(lastStep.exit[k], lastStep.star, canvas)
          /\ ~Escaping(lastStep.entry[k], lastStep.star, canvas)
          /\ ~lastStep.exit[k].merged
          /\ lastStep.exit[k].id \in pruned
          /\ lastStep.exit[k].id \notin Ids(bodies)

\* C14 second witness: a frame that ran no step (the game paused, after a
\* resize moved the star) removed a body
C14_WitnessIdle ==
    /\ paused /\ ~lastStep.called /\ frames = 2 /\ pruned # {}
    /\ canvas.w # CANVAS_W

\* a frame of a paused game: no step, no new body, and every body that is
\* still live is the body it was, field by field, trail included
PausedFrame ==
    (paused /\ frames' = frames + 1) =>
        /\ lastStep' = NoStep
        /\ nextId' = nextId
        /\ Ids(bodies') \subseteq Ids(bodies)
        /\ \A j \in 1..Len(bodies') :
              \E k \in 1..Len(bodies) :
                 /\ bodies[k].id = bodies'[j].id
                 /\ bodies[k].x = bodies'[j].x /\ bodies[k].y = bodies'[j].y
                 /\ bodies[k].vx = bodies'[j].vx
                 /\ bodies[k].vy = bodies'[j].vy
                 /\ bodies[k].mass = bodies'[j].mass
                 /\ bodies[k].radius = bodies'[j].radius
                 /\ bodies[k].trail = bodies'[j].trail

\* C15: while the game is paused a frame does not invoke step and spawns no
\* body; position, velocity, mass, radius and trail of every live body are
\* unchanged by the frame.
C15_PauseFreezes == [][PausedFrame]_vars

\* C15 witness: the one frame so far lasted a positive time and ran no step,
\* so the game was paused in it; a moving body came through it
C15_Witness ==
    /\ paused /\ frames = 2 /\ lastTime # <<>> /\ lastTime[1] > 0
    /\ ~lastStep.called
    /\ \E k \in 1..Len(bodies) : bodies[k].vx # 0 \/ bodies[k].vy # 0

\* C15 second witness: a paused game with a placement pending, which the next
\* frame discards
C15_WitnessPending == paused /\ intents # <<>> /\ frames < MaxFrames

\* body b is a new body made from body o of the saved scene, moved by
\* (sx, sy): same velocity, mass, radius, colour and type, a fresh id, an
\* empty trail and cleared flags
RestoredFrom(b, o, sx, sy) ==
    /\ b.x = o.x + sx /\ b.y = o.y + sy
    /\ b.vx = o.vx /\ b.vy = o.vy
    /\ b.mass = o.mass /\ b.radius = o.radius
    /\ b.color = o.color /\ b.type = o.type
    /\ b.id >= nextId /\ b.id < nextId'
    /\ b.trail = <<>>
    /\ ~b.escaped /\ ~b.merged

\* the scene after a Load is the scene of the last Save, moved by (sx, sy)
RestoredScene(sx, sy) ==
    /\ atSave # <<>>
    /\ mode' = atSave[1].mode
    /\ Len(bodies') = Len(atSave[1].bodies)
    /\ \A k \in 1..Len(bodies') :
          RestoredFrom(bodies'[k], atSave[1].bodies[k], sx, sy)
    /\ \A j, k \in 1..Len(bodies') :
          bodies'[j].id = bodies'[k].id => j = k

\* Load restores the saved scene where it was
RoundTripExact == load => RestoredScene(0, 0)

\* Load restores the saved scene where it was relative to the reference point
\* of the saved mode: in place when that point has not moved since the save
RoundTripRelative ==
    load => RestoredScene(Reference(atSave[1].mode).x - atSave[1].ref.x,
                          Reference(atSave[1].mode).y - atSave[1].ref.y)

\* C16 as stated: with no resize between them, Save and then Load restore the
\* mode and the sequence of bodies with identical position, velocity, mass,
\* radius, colour and type, whatever happened in between; the bodies have
\* fresh ids, empty trails and cleared flags.
C16_RoundTripInPlace == [][RoundTripExact]_vars

\* C16 as the code has it: Save and then Load restore the mode and the
\* sequence of bodies with identical velocity, mass, radius, colour and type
\* and identical position relative to the reference point of the saved mode
\* (the star, or the canvas centre), hence identical position when that point
\* has not moved in between; fresh ids, empty trails, cleared flags.
C16_RoundTripRelative == [][RoundTripRelative]_vars

\* C16 witness: a scene saved after the physics had moved it, changed since,
\* and now restored: new bodies with the saved values and no trail
C16_Witness ==
    /\ atSave # <<>>
    /\ \E k \in 1..Len(atSave[1].bodies) : atSave[1].bodies[k].trail # <<>>
    /\ mode = atSave[1].mode
    /\ Len(bodies) = Len(atSave[1].bodies)
    /\ \A k \in 1..Len(bodies) :
          /\ bodies[k].id \notin Ids(atSave[1].bodies)
          /\ bodies[k].x = atSave[1].bodies[k].x
          /\ bodies[k].y = atSave[1].bodies[k].y
          /\ bodies[k].vx = atSave[1].bodies[k].vx
          /\ bodies[k].trail = <<>>

\* C16 second witness: the star was centred between the save and the load,
\* and the restored bodies went with it
C16_WitnessMoved ==
    /\ atSave # <<>> /\ atSave[1].bodies # <<>>
    /\ atSave[1].mode = "star" /\ mode = "star"
    /\ atSave[1].ref.x # star.x
    /\ Len(bodies) = Len(atSave[1].bodies)
    /\ \A k \in 1..Len(bodies) :
          /\ bodies[k].id \notin Ids(atSave[1].bodies)
          /\ bodies[k].x - star.x = atSave[1].bodies[k].x - atSave[1].ref.x
          /\ bodies[k].trail = <<>>

\* what the model's rounding can move a world coordinate w by at zoom z: one
\* unit, a screen pixel's worth, and a fiftieth of w
Slack(z, w) == 1 + (ZoomDen \div z) + (Abs(w) \div 50)

\* the world point under the cursor at p is the same before and after
CursorPointKept(p) ==
    LET before == screenToWorld(camera, p[1], p[2])
        after == screenToWorld(camera', p[1], p[2])
    IN  /\ Abs(after.x - before.x) <= Slack(camera'.zoom, before.x)
        /\ Abs(after.y - before.y) <= Slack(camera'.zoom, before.y)

\* C17: zoom is centred on the cursor: every wheel event, at every cursor
\* position and in every reachable camera state, leaves the world point under
\* the cursor where it was.
C17_CursorPointFixed ==
    [][\A p \in ScreenPoints : \A deltaY \in WheelDeltas :
          onWheel(p, deltaY) => CursorPointKept(p)]_vars

\* the wheel events whose zoom * factor lies within the limits do leave the
\* world point under the cursor where it was
C17_FixedWithinLimits ==
    [][\A p \in ScreenPoints : \A deltaY \in WheelDeltas :
          (/\ onWheel(p, deltaY)
           /\ camera'.zoom = Scaled(camera.zoom,
                                   IF deltaY < 0 THEN WHEEL_IN ELSE WHEEL_OUT))
             => CursorPointKept(p)]_vars

\* the zoom stands at its least value and the pan has moved on
C17_WitnessLimit ==
    /\ camera.zoom = ZoomDen \div MIN_ZOOM_INV
    /\ camera.panX > 0

\* the body's distance from the star, squared, in 1/CoarseDen px
OrbitDistSq ==
    Coarse(orbit.x - star.x * FineDen) * Coarse(orbit.x - star.x * FineDen)
      + Coarse(orbit.y - star.y * FineDen) * Coarse(orbit.y - star.y * FineDen)

\* the body is within one hundredth of r px of the radius r px
InBand(r) ==
    /\ OrbitDistSq >= ((99 * r * CoarseDen) \div 100)
                         * ((99 * r * CoarseDen) \div 100)
    /\ OrbitDistSq <= ((101 * r * CoarseDen) \div 100)
                         * ((101 * r * CoarseDen) \div 100)

\* C18: a single body started on a circular orbit round the fixed star, its
\* velocity tangential and equal to the circular-orbit speed, stays within a
\* small band of its initial radius (one hundredth of it) through 10,000
\* calls of step: no secular drift.
C18_OrbitStaysInBand ==
    orbit # NoOrbit =>
        /\ ~orbit.merged
        /\ \E r \in OrbitRadii : InBand(r)   \* the bands do not meet

\* C18 witness: the body after the last of the 10,000 steps
C18_Witness ==
    /\ orbit # NoOrbit
    /\ frames >= 10000
    /\ orbit.vx # 0
    /\ \E r \in OrbitRadii : InBand(r)

\* C19 as stated: Physics.step handles escape flagging: after step returns,
\* every body farther than ESCAPE_RADIUS (5000) from the star has
\* escaped = true.
C19_StepFlagsEscaped ==
    (lastStep.called /\ lastStep.star # <<>>) =>
        \A k \in 1..Len(lastStep.exit) :
           Escaping(lastStep.exit[k], lastStep.star, canvas) =>
              lastStep.exit[k].escaped

\* C19 as the code has it: step flags no escape, it returns every body with
\* escaped as it found it, however far from the star; the body farther than
\* ESCAPE_RADIUS is flagged by the game loop once step has returned, and is
\* pruned in that frame.
C19_StepLeavesEscaped ==
    lastStep.called =>
        /\ Len(lastStep.exit) = Len(lastStep.entry)
        /\ \A k \in 1..Len(lastStep.exit) :
              /\ lastStep.exit[k].escaped = lastStep.entry[k].escaped
              /\ Escaping(lastStep.exit[k], lastStep.star, canvas) =>
                    lastStep.exit[k].id \in pruned

\* C19 witness: step has returned a body that is beyond ESCAPE_RADIUS of the
\* star and is not flagged escaped
C19_Witness ==
    /\ lastStep.called /\ lastStep.star # <<>>
    /\ \E k \in 1..Len(lastStep.exit) :
          /\ Escaping(lastStep.exit[k], lastStep.star, canvas)
          /\ ~lastStep.exit[k].escaped

\* body k is flagged merged when the pair scan of pass p begins
FlaggedAtScan(p, k) == lastStep.passes[p].scan[k].merged

\* C20: a body that is already flagged merged when the body-vs-body scan of a
\* pass begins (absorbed by the star in that pass, or flagged in an earlier
\* substep of the call) takes no part in a merge or an explosion of that
\* pass: it is in no resolved pair, so it gives no mass to a survivor and
\* goes into no fragment, and the scan leaves it as it was.
C20_FlaggedBeforeScanLeftOut ==
    lastStep.called =>
        /\ \A e \in Events :
              ~FlaggedAtScan(e.pass, e.i) /\ ~FlaggedAtScan(e.pass, e.j)
        /\ \A p \in Passes : \A k \in Indices :
              FlaggedAtScan(p, k) =>
                 lastStep.passes[p].exit[k] = lastStep.passes[p].scan[k]

\* C20 witness: the star absorbed a body in a pass in which it overlaps an
\* unflagged body
C20_Witness ==
    /\ lastStep.called
    /\ \E p \in Passes : \E k, m \in Indices :
          /\ ~lastStep.passes[p].entry[k].merged
          /\ FlaggedAtScan(p, k)
          /\ ~FlaggedAtScan(p, m)
          /\ Overlap(lastStep.passes[p].scan[k], lastStep.passes[p].scan[m])

\* C20 second witness: a body flagged in an earlier substep overlaps an
\* unflagged body in a later pass of the same call
C20_WitnessEarlier ==
    /\ lastStep.called
    /\ \E p \in Passes : \E k, m \in Indices :
          /\ lastStep.passes[p].entry[k].merged
          /\ ~FlaggedAtScan(p, m)
          /\ Overlap(lastStep.passes[p].scan[k], lastStep.passes[p].scan[m])

-----------------------------------------------------------------------------
(* The order of one substep, read off the record of a call *)

\* the bodies as substep s of the call found them
SubstepStart(s) ==
    IF s = 1 THEN Essences(lastStep.entry) ELSE lastStep.passes[s - 1].exit

\* the acceleration of body k along x and y when every body stands where bs
\* has it: the star's pull and the pull of every other body
SnapshotAcceleration(bs, k) ==
    LET dsq(j) == (bs[j].x - bs[k].x) * (bs[j].x - bs[k].x)
                    + (bs[j].y - bs[k].y) * (bs[j].y - bs[k].y)
                    + SOFTENING_SQ
        px(j) == IF j > k
                 THEN Pull(bs[j].mass, bs[j].x - bs[k].x, dsq(j))
                 ELSE -Pull(bs[j].mass, bs[k].x - bs[j].x, dsq(j))
        py(j) == IF j > k
                 THEN Pull(bs[j].mass, bs[j].y - bs[k].y, dsq(j))
                 ELSE -Pull(bs[j].mass, bs[k].y - bs[j].y, dsq(j))
        RECURSIVE sum(_, _)
        sum(j, axis) ==
            IF j > Len(bs) THEN 0
            ELSE (IF j = k THEN 0
                  ELSE IF axis = "x" THEN px(j) ELSE py(j)) + sum(j + 1, axis)
        sx == IF lastStep.star = <<>> THEN 0
              ELSE Pull(lastStep.star[1].mass, lastStep.star[1].x - bs[k].x,
                        (lastStep.star[1].x - bs[k].x)
                           * (lastStep.star[1].x - bs[k].x)
                         + (lastStep.star[1].y - bs[k].y)
                           * (lastStep.star[1].y - bs[k].y)
                         + SOFTENING_SQ)
        sy == IF lastStep.star = <<>> THEN 0
              ELSE Pull(lastStep.star[1].mass, lastStep.star[1].y - bs[k].y,
                        (lastStep.star[1].x - bs[k].x)
                           * (lastStep.star[1].x - bs[k].x)
                         + (lastStep.star[1].y - bs[k].y)
                           * (lastStep.star[1].y - bs[k].y)
                         + SOFTENING_SQ)
    IN  [ax |-> sx + sum(1, "x"), ay |-> sy + sum(1, "y")]

\* body k of bs with the acceleration the snapshot bs gives it
Accelerated(bs, k) ==
    [x |-> bs[k].x, y |-> bs[k].y, vx |-> bs[k].vx, vy |-> bs[k].vy,
     mass |-> bs[k].mass,
     ax |-> SnapshotAcceleration(bs, k).ax,
     ay |-> SnapshotAcceleration(bs, k).ay]

\* every body of bs kicked and drifted, all from the one snapshot bs
Drifted(bs) ==
    Seq1([k \in 1..Len(bs) |->
            Drift(HalfKick(Accelerated(bs, k), lastStep.frameTime),
                  lastStep.frameTime)], Len(bs))

\* every body of bs after the second kick, all from the one snapshot bs
Kicked(bs) ==
    Seq1([k \in 1..Len(bs) |->
            HalfKick(Accelerated(bs, k), lastStep.frameTime)], Len(bs))

\* the kinematics substep s reaches before its collision pass, when both
\* force passes read one snapshot each
Expected(s) == Kicked(Drifted(SubstepStart(s)))

\* C21: in every substep each of the two acceleration computations finishes
\* for all bodies before any velocity or position changes, so every kick
\* uses accelerations of one and the same set of positions; the order is
\* accelerate, half-kick, drift, accelerate, half-kick, trail append,
\* collision pass: the trail takes the position the collision pass finds.
C21_ForcesFromOneSnapshot ==
    lastStep.called =>
        \A s \in Passes : \A k \in Indices :
           /\ SameKinematics(lastStep.passes[s].entry[k], Expected(s)[k])
           /\ LET trail == lastStep.exit[k].trail
                  n == Len(trail) - SUBSTEPS + s
              IN  n >= 1 =>
                    trail[n] = <<lastStep.passes[s].entry[k].x,
                                 lastStep.passes[s].entry[k].y>>

\* C21 witness: a call in which a body's acceleration depends on where a
\* body of lower index stands, that body moved in the first drift, and a
\* collision moved a body after its trail was appended
C21_Witness ==
    /\ lastStep.called /\ lastStep.frameTime > 0
    /\ \E j, k \in Indices :
          /\ j < k
          /\ ~SameKinematics(Drifted(SubstepStart(1))[j], SubstepStart(1)[j])
          /\ Pull(lastStep.entry[j].mass,
                  lastStep.entry[k].x - lastStep.entry[j].x,
                  (lastStep.entry[k].x - lastStep.entry[j].x)
                     * (lastStep.entry[k].x - lastStep.entry[j].x)
                   + (lastStep.entry[k].y - lastStep.entry[j].y)
                     * (lastStep.entry[k].y - lastStep.entry[j].y)
                   + SOFTENING_SQ) # 0
    /\ \E s \in Passes : \E k \in Indices :
          LET trail == lastStep.exit[k].trail
              n == Len(trail) - SUBSTEPS + s
          IN  /\ n >= 1
              /\ trail[n] # <<lastStep.passes[s].exit[k].x,
                              lastStep.passes[s].exit[k].y>>

-----------------------------------------------------------------------------
(* The survivor of a merge *)

Cube(n) == n * n * n

\* C22: when an overlapping pair at indices i < j is merged the survivor is
\* the body of the lower index, whatever the masses and radii: it keeps its
\* id and stays unflagged, the body of the higher index is flagged merged and
\* is otherwise left alone; the survivor's radius r has r^3 = r_a^3 + r_b^3
\* (r is the whole number of units below the cube root) and its position is
\* the mass-weighted mean of the two positions (to half a unit).
C22_LowerIndexSurvives ==
    \A e \in Merges :
        LET s == e.after[e.i]
            t == e.after[e.j]
        IN  /\ e.i < e.j
            /\ s.id = e.a.id /\ ~s.merged
            /\ t = [e.b EXCEPT !.merged = TRUE]
            /\ Cube(s.radius) <= Cube(e.a.radius) + Cube(e.b.radius)
            /\ Cube(s.radius + 1) > Cube(e.a.radius) + Cube(e.b.radius)
            /\ 2 * Abs(s.mass * s.x - (e.a.mass * e.a.x + e.b.mass * e.b.x))
                  <= s.mass
            /\ 2 * Abs(s.mass * s.y - (e.a.mass * e.a.y + e.b.mass * e.b.y))
                  <= s.mass

\* C22 witness: a merge in which the body of the lower index is the lighter
\* and the smaller of the two, and the two stand apart
C22_Witness ==
    \E e \in Merges :
        /\ ~e.a.merged /\ ~e.b.merged
        /\ e.a.mass < e.b.mass /\ e.a.radius < e.b.radius
        /\ e.a.x # e.b.x
        /\ e.after[e.i].x # e.a.x

-----------------------------------------------------------------------------
(* Sibling fragments at their spawn positions *)

\* the pairs of different fragments of one explosion
Siblings(e) ==
    {pq \in (1..Len(e.frags)) \X (1..Len(e.frags)) : pq[1] < pq[2]}

\* C23: any two distinct fragments of one explosion are placed with centre
\* distance at least twice the fragment radius, so the overlap test of the
\* collision pass (line 125) is false for every pair of sibling fragments.
C23_SiblingsApart ==
    \A e \in Explosions :
        \A pq \in Siblings(e) : ~Overlap(e.frags[pq[1]], e.frags[pq[2]])

\* the part of C23 that the code keeps: the three fragments of a smallest
\* explosion stand apart (neighbours are never closer than a sixth of a turn)
C23_ThreeApart ==
    \A e \in Explosions :
        Len(e.frags) = MIN_FRAGMENTS =>
            \A pq \in Siblings(e) : ~Overlap(e.frags[pq[1]], e.frags[pq[2]])

\* an explosion of three fragments has happened
C23_WitnessThree == \E e \in Explosions : Len(e.frags) = MIN_FRAGMENTS

-----------------------------------------------------------------------------
(* The loop started, stopped and resumed: the game as constructed and       *)
(* started, frames arriving while the page calls stop() and togglePause()   *)
(* and the user moves the speed slider.                                     *)

\* positions of the speed slider: time warps 0.5, 1 and 4
Speeds == {-1, 0, 2}

\* the speed slider at v, UI._onSpeedChange(); config.timeScale reads it
onSpeedChange(v) ==
    /\ Input
    /\ ui' = [ui EXCEPT !.speed = v]
    /\ UNCHANGED <<bodies, star, mode, paused, nextId, explosions, intents,
                   saved, atSave, orbit, placement, clickIntents, inspectedId,
                   camera>>

\* time between two frames, in ms: none, 60 fps, 10 fps, a stalled tab
LoopGaps == {0, 16, 100, 250}

NextLoop ==
    \/ \E gap \in LoopGaps : Loop(OrElse(lastTime, 0) + gap, 0)
    \/ togglePause
    \/ stop
    \/ \E v \in Speeds : onSpeedChange(v)

SpecLoop == InitGame /\ [][NextLoop]_vars

\* a frame runs in this step
Frame == frames' = frames + 1

\* C24: with non-decreasing frame timestamps every call of Physics.step made
\* by the game loop gets a dt with 0 < dt <= 0.1 * timeScale; the first frame
\* after start() or after a resume that restarts the loop (which resets
\* _lastTime) has dt = 0 and makes no call of step; a frame gap longer than
\* 0.1 s is cut to 0.1 s before the time warp is applied.
C24_TimeSlice ==
    [][/\ (Frame /\ lastStep'.called) =>
            /\ 0 < lastStep'.frameTime
            /\ lastStep'.frameTime <= MAX_FRAME_MS * Config.timeScale
       /\ (Frame /\ lastTime = <<>>) => ~lastStep'.called
       /\ (~Frame /\ paused /\ ~paused' /\ ~rafId) =>
            lastTime' = <<>> /\ rafId'
       /\ (Frame /\ ~paused /\ lastTime # <<>>
              /\ lastTime'[1] - lastTime[1] > MAX_FRAME_MS) =>
            /\ lastStep'.called
            /\ lastStep'.frameTime = MAX_FRAME_MS * Config.timeScale]_vars

\* C24 witness: frames had run, the loop was stopped, a resume restarted it,
\* and the frame after that resume found no earlier timestamp and made no
\* call of step
C24_Witness ==
    /\ frames >= 2 /\ lastFrame.first /\ ~paused /\ rafId
    /\ lastTime # <<>> /\ lastTime[1] > 0
    /\ ~lastStep.called

\* a stalled frame was cut to 0.1 s and stepped under a time warp other than 1
C24_WitnessCapped ==
    /\ lastStep.called /\ ui.speed # 0 /\ ~lastFrame.first
    /\ lastStep.frameTime = MAX_FRAME_MS * Config.timeScale

-----------------------------------------------------------------------------
(* The pointer leaves the canvas during a drag *)

\* C25: if the pointer leaves the canvas while placement.phase is 'dragging'
\* the drag is cancelled: the phase returns to 'idle' and no placement intent
\* is queued, so that no body is launched for the gesture.
C25_LeaveCancels ==
    [][onLeave => (placement'.phase = "idle" /\ intents' = intents)]_vars

\* the part of C25 that the code keeps: a leave during a drag ends the drag
C25_LeaveEndsDrag ==
    [][onLeave => placement' = IdlePlacement]_vars

-----------------------------------------------------------------------------
(* Placements made while the game is paused *)

\* the pending intents that were committed while the game was paused
Held == {n \in 1..Len(intents) : intents[n].held}

\* the bodies the frame of this step has spawned from intents
Spawns == nextId' - nextId - Len(lastStep'.fragments)

\* C26: under every interleaving of input events, togglePause calls and
\* frames, a placement intent committed while the game is paused never
\* produces a spawned body, also when the game is resumed before the next
\* frame runs: a frame spawns no more bodies than it finds intents that were
\* committed while the game was running.
C26_HeldIntentsDiscarded ==
    [][Frame => Spawns <= Len(intents) - Cardinality(Held)]_vars

\* the part of C26 that the code keeps: a frame that runs while the game is
\* paused empties the queue and spawns nothing
C26_PausedFrameDiscards ==
    [][(Frame /\ paused) => (Spawns = 0 /\ intents' = <<>>)]_vars

\* a frame has run while the game was paused and has thrown away an intent:
\* an intent is pending, the game is paused
C26_WitnessPending == paused /\ Held # {} /\ frames >= 1

-----------------------------------------------------------------------------
(* Mass and momentum over a whole collision pass *)

\* the sum of field over the bodies of bs[1..k] not flagged merged, field one
\* of "m", "mvx", "mvy"
RECURSIVE Total(_, _, _)
Total(bs, k, field) ==
    IF k = 0 THEN 0
    ELSE Total(bs, k - 1, field)
         + (IF bs[k].merged THEN 0
            ELSE CASE field = "m"   -> bs[k].mass
                   [] field = "mvx" -> bs[k].mass * bs[k].vx
                   [] field = "mvy" -> bs[k].mass * bs[k].vy)

\* the merges of collision pass s
MergesOf(s) == {e \in Merges : e.pass = s}

\* twice the rounding the divisions of the merges of pass s may add up to:
\* half a unit of velocity times the survivor's mass, for each merge
RECURSIVE Rounding(_)
Rounding(es) ==
    IF es = {} THEN 0
    ELSE LET e == CHOOSE x \in es : TRUE
         IN  e.after[e.i].mass + Rounding(es \ {e})

\* C27: for one collision pass in merge mode with no star, however many
\* merges occur and also when one survivor absorbs several bodies in the
\* pass, the sum of mass and the sum of mass * velocity over the bodies not
\* flagged merged after the pass equal the same sums over the unflagged
\* bodies before the pass (the momentum to within the rounding of the
\* divisions that compute the survivors' velocities).
C27_PassConserves ==
    (lastStep.called /\ ~lastStep.explosions /\ lastStep.star = <<>>) =>
        \A s \in Passes :
            LET before == lastStep.passes[s].entry
                after == lastStep.passes[s].exit
                n == Len(before)
            IN  /\ Len(after) = n
                /\ Total(after, n, "m") = Total(before, n, "m")
                /\ 2 * Abs(Total(after, n, "mvx") - Total(before, n, "mvx"))
                      <= Rounding(MergesOf(s))
                /\ 2 * Abs(Total(after, n, "mvy") - Total(before, n, "mvy"))
                      <= Rounding(MergesOf(s))

\* C27 witness: a pass without star in merge mode in which one survivor has
\* absorbed two bodies of different velocities
C27_Witness ==
    /\ lastStep.called /\ ~lastStep.explosions /\ lastStep.star = <<>>
    /\ \E e, f \in Merges :
          /\ e.pass = f.pass /\ e.i = f.i /\ e.j < f.j
          /\ f.a.mass = e.a.mass + e.b.mass
          /\ e.b.vx # f.b.vx
          /\ Total(lastStep.passes[e.pass].entry, Len(lastStep.entry), "mvx") # 0

-----------------------------------------------------------------------------
(* Placements near the star: the game as constructed, the user choosing the *)
(* mode and the size and dragging from points at and around the star.       *)

\* canvas positions of the pointer: the centre of the star, and 36 and 70
\* pixels to its right
SpawnPoints == {<<400, 300>>, <<436, 300>>, <<470, 300>>}

NextSpawn ==
    \/ \E gap \in (IF lastTime = <<>> THEN {0} ELSE FrameGaps) :
         Loop(OrElse(lastTime, 0) + gap, 0)
    \/ \E m \in {"star", "freeform"} : setMode(m)
    \/ \E r \in Sizes : onSizeChange(r)
    \/ \E p \in SpawnPoints : onDown(p)
    \/ \E p \in SpawnPoints : onUp(p)

SpecSpawn == InitGame /\ [][NextSpawn]_vars

\* the bodies the frame of this step has inserted, as they were inserted
Inserted ==
    LET bs == IF lastStep'.called THEN lastStep'.entry ELSE bodies'
    IN  {bs[k] : k \in {n \in 1..Len(bs) : bs[n].id >= nextId}}

\* the pending intents that lie nearer to the star than star.radius plus the
\* configured radius, the star being where the frame of this step has it
TooNear ==
    {n \in 1..Len(intents) :
        LET at == screenToWorld(camera, intents[n].x, intents[n].y)
        IN  Within(at.x - star'.x, at.y - star'.y,
                   star'.radius + Config.radius)}

\* C28: in star mode a spawn request nearer to the star than star.radius
\* plus the configured radius inserts no body, so that every body _spawnBody
\* inserts fails the absorption test (distance < star.radius + 0.5 * radius)
\* at the moment it is inserted; in freeform mode no request is refused.
C28_SpawnedClearOfStar ==
    [][(Frame /\ ~paused) =>
          /\ mode = "star" =>
                /\ Cardinality(Inserted) = Len(intents) - Cardinality(TooNear)
                /\ \A b \in Inserted :
                      /\ b.radius = Config.radius
                      /\ ~Within(b.x - star'.x, b.y - star'.y,
                                 star'.radius + b.radius)
                      /\ ~TouchesStar(b, star')
          /\ mode = "freeform" => Cardinality(Inserted) = Len(intents)]_vars

\* C28 witness: a frame in star mode found two requests, refused one of them
\* and inserted a body for the other, which is clear of the star (the frame
\* was the first, so that the body is where it was inserted)
C28_Witness ==
    /\ mode = "star" /\ lastFrame.first
    /\ lastFrame.asked = 2 /\ lastFrame.spawned = 1
    /\ Len(bodies) = 1
    /\ ~TouchesStar(bodies[1], star)

\* a frame in star mode has inserted a body of the largest size that stands
\* at exactly star.radius + radius from the star
C28_WitnessEdge ==
    /\ mode = "star" /\ lastFrame.first /\ lastFrame.spawned = 1
    /\ Len(bodies) = 1
    /\ bodies[1].radius = 40
    /\ ~TouchesStar(bodies[1], star)
    /\ Within(bodies[1].x - star.x, bodies[1].y - star.y,
              star.radius + bodies[1].radius + 1)

\* a frame in freeform mode has inserted a body at the centre of the star
C28_WitnessFreeform ==
    /\ mode = "freeform" /\ lastFrame.first /\ lastFrame.spawned >= 1
    /\ \E k \in 1..Len(bodies) : bodies[k].x = star.x /\ bodies[k].y = star.y

-----------------------------------------------------------------------------
(* The inspector: a game in play in freeform mode that holds two planets    *)
(* about to merge, the user clicking on bodies, dragging out new ones and   *)
(* removing bodies from the list.                                           *)

\* the planet of the higher index lies under the pointer at (560, 300), the
\* other one does not
InspectScene ==
    << [x |-> 540, y |-> 300, vx |-> 10, vy |-> 0, mass |-> 100,
        radius |-> 8, color |-> "#4fc3f7", type |-> "planet"],
       [x |-> 552, y |-> 300, vx |-> -10, vy |-> 4, mass |-> 5,
        radius |-> 8, color |-> "#c8d8e0", type |-> "planet"] >>

InitInspect ==
    /\ mode = "freeform"
    /\ bodies = Construct(InspectScene)
    /\ nextId = Len(InspectScene) + 1
    /\ InitControls
    /\ explosions = FALSE
    /\ canvas = [w |-> CANVAS_W, h |-> CANVAS_H]
    /\ star = [Star(0, 0) EXCEPT !.x = CANVAS_W \div 2, !.y = CANVAS_H \div 2]
    /\ paused = FALSE
    /\ lastTime = <<0>>
    /\ saved = <<>>
    /\ atSave = <<>>
    /\ orbit = NoOrbit
    /\ frames = 0
    /\ inputs = 0
    /\ rafId = TRUE
    /\ lastFrame = [NoFrame EXCEPT !.first = TRUE]
    /\ centred = TRUE
    /\ pruned = {}
    /\ lastStep = NoStep
    /\ hist = <<>>

NextInspect ==
    \/ \E gap \in FrameGaps : Loop(OrElse(lastTime, 0) + gap, 0)
    \/ \E p \in ScreenPoints : onDown(p)
    \/ \E p \in ScreenPoints : onUp(p)
    \/ \E id \in 1..(nextId - 1) : removeBody(id)
    \/ togglePause
    \/ reset

SpecInspect == InitInspect /\ [][NextInspect]_vars

\* C29: at every render the inspected body handed to the renderer is either
\* null or a body of the live collection whose id is _inspectedId; once the
\* inspected body has been pruned (merged or escaped) the stale _inspectedId
\* resolves to no body, whatever bodies are created later.
C29_InspectorTargetValid ==
    [][Frame =>
         LET r == lastFrame'.inspected
         IN  /\ r # <<>> =>
                   /\ inspectedId' # <<>> /\ r[1].id = inspectedId'[1]
                   /\ \E k \in 1..Len(bodies') : bodies'[k] = r[1]
                   /\ r[1].id \notin pruned'
             /\ (inspectedId' # <<>> /\ inspectedId'[1] \in pruned') =>
                   r = <<>>
             /\ (inspectedId' # <<>> /\ inspectedId'[1] \in Ids(bodies')) =>
                   r # <<>>]_vars

\* C29 witness: the inspected body has been pruned, a body has been created
\* after that, and the last render was handed null for the stale id
C29_Witness ==
    /\ inspectedId # <<>> /\ inspectedId[1] \in pruned
    /\ \E k \in 1..Len(bodies) : bodies[k].id > inspectedId[1]
    /\ Len(bodies) >= inspectedId[1]
    /\ lastFrame.spawned >= 1
    /\ lastFrame.inspected = <<>>

\* the last render was handed a live body, the one the user has clicked on
C29_WitnessLive ==
    /\ lastFrame.inspected # <<>>
    /\ \E k \in 1..Len(bodies) : bodies[k] = lastFrame.inspected[1]

=============================================================================
